---- MODULE Spec2Model ----
(***************************************************************************)
(* Document matching and reconciliation service of InvoiceFlow             *)
(* (backend/src/services/matching.py, class MatchingService).              *)
(*                                                                         *)
(* Conventions of the model                                                *)
(*  - a Python str is a tuple of one-character strings; None is the        *)
(*    one-element tuple <<"None">>, which is no string of the alphabet;    *)
(*  - a nullable number is the empty set (None) or a singleton {n};        *)
(*  - quantities, prices and similarity scores are fixed-point numbers in  *)
(*    thousandths (1.0 is 1000, 0.01 is 10, a score of 85.714 is 85714);   *)
(*    arithmetic on them is exact, binary floating-point rounding is not   *)
(*    modelled;                                                            *)
(*  - a document id is the position of the document in its list, and a     *)
(*    null document id is 0.                                               *)
(***************************************************************************)
EXTENDS Integers, Sequences, FiniteSets, TLC

VARIABLES
    pc,                 \* position of the running operation
    pos,                \* purchase orders of the workspace, in query order
    invoices,           \* invoices of the workspace, in query order
    delivery_notes,     \* delivery notes of the workspace, in query order
    matching_results,   \* the list match_documents_in_workspace builds
    db_results,         \* rows of the matching_results table
    po_items,           \* po_data.line_items
    invoice_items,      \* invoice_data.line_items
    dn_items,           \* dn_data.line_items
    matched_items,      \* _match_items(po_items, invoice_items, "PO", "Invoice")
    cmp_index,          \* loop position in the list being compared
    discrepancies,      \* the list _compare_line_items builds
    po_extracted,       \* po_data: header fields of the PO's ExtractedData
    invoice_extracted,  \* invoice_data: those of the invoice
    dn_extracted,       \* dn_data: those of the delivery note, if there is one
    result,             \* the MatchingResult _create_matching_result returns
    documents,          \* rows of the documents table
    extracted_data,     \* rows of the extracted_data table
    extracted_data_dict, \* what extract_document gave process_document
    returned,           \* what the calls of match_documents_in_workspace returned
    po_table            \* rows of the line-item table of a purchase order, as cell texts

vars == <<pc, pos, invoices, delivery_notes, matching_results, db_results,
          po_items, invoice_items, dn_items, matched_items, cmp_index,
          discrepancies, po_extracted, invoice_extracted, dn_extracted,
          result, documents, extracted_data,
          extracted_data_dict, returned, po_table>>

wsVars == <<pos, invoices, delivery_notes, matching_results, db_results>>
itemVars == <<po_items, invoice_items, dn_items, matched_items, cmp_index,
              discrepancies>>
dataVars == <<po_extracted, invoice_extracted, dn_extracted, result>>
storeVars == <<documents, extracted_data, extracted_data_dict, returned, po_table>>

-----------------------------------------------------------------------------
(* Bounds of the model *)

MaxPOs == 2
MaxInvoices == 2
MaxDNs == 2
MaxPoItems == 2
MaxInvItems == 2
MaxDnItems == 1

-----------------------------------------------------------------------------
(* Python values *)

None == <<"None">>

Null == {}

Truthy(s) == s # None /\ s # <<>>

Min(S) == CHOOSE x \in S : \A y \in S : x <= y

Abs(x) == IF x < 0 THEN -x ELSE x

SeqsUpTo(S, n) == UNION {[1..k -> S] : k \in 0..n}

LowerCase == <<"a", "b", "c", "d", "e", "m", "o", "p", "r", "s", "u", "x", "y", "z">>
UpperCase == <<"A", "B", "C", "D", "E", "M", "O", "P", "R", "S", "U", "X", "Y", "Z">>

UpperChar(c) ==
    IF \E i \in 1..Len(LowerCase) : LowerCase[i] = c
    THEN UpperCase[CHOOSE i \in 1..Len(LowerCase) : LowerCase[i] = c]
    ELSE c

\* str.upper()
Upper(s) == [i \in 1..Len(s) |-> UpperChar(s[i])]

IsSpace(c) == c = " "

RECURSIVE LStrip(_)
LStrip(s) ==
    IF s # <<>> /\ IsSpace(Head(s)) THEN LStrip(Tail(s)) ELSE s

RECURSIVE RStrip(_)
RStrip(s) ==
    IF s # <<>> /\ IsSpace(s[Len(s)]) THEN RStrip(SubSeq(s, 1, Len(s) - 1)) ELSE s

\* str.strip()
Strip(s) == RStrip(LStrip(s))

-----------------------------------------------------------------------------
(* rapidfuzz.fuzz.ratio: 100 * (1 - indel(a, b) / (|a| + |b|)), where the    *)
(* indel distance is |a| + |b| - 2 * lcs(a, b); the result is in thousandths *)

RECURSIVE LCS(_, _)
LCS(a, b) ==
    IF a = <<>> \/ b = <<>> THEN 0
    ELSE IF Head(a) = Head(b) THEN 1 + LCS(Tail(a), Tail(b))
    ELSE LET x == LCS(Tail(a), b)
             y == LCS(a, Tail(b))
         IN IF x >= y THEN x ELSE y

FuzzRatio(a, b) ==
    IF Len(a) + Len(b) = 0 THEN 100 * 1000
    ELSE (200 * 1000 * LCS(a, b)) \div (Len(a) + Len(b))

-----------------------------------------------------------------------------
(* MatchingService.__init__ *)

VENDOR_NAME_SIMILARITY_THRESHOLD == 85
ITEM_DESCRIPTION_SIMILARITY_THRESHOLD == 80
PRICE_TOLERANCE == 10
QUANTITY_TOLERANCE == 10

-----------------------------------------------------------------------------
(* Documents and their extracted data.  A document is modelled by the       *)
(* ExtractedData row _get_extracted_data finds for it; extracted = FALSE is *)
(* a document with no row.                                                  *)

\* the header fields of an ExtractedData row (line_items are kept apart)
ExtractedData(po_number, vendor_name, currency_code, tax_rate, tax_amount, subtotal, total_amount) ==
    [ extracted |-> TRUE, po_number |-> po_number, vendor_name |-> vendor_name,
      currency_code |-> currency_code, tax_rate |-> tax_rate,
      tax_amount |-> tax_amount, subtotal |-> subtotal,
      total_amount |-> total_amount ]

NoData == [extracted |-> FALSE, po_number |-> None, vendor_name |-> None]

\* no MatchingResult has been built
NoResult == [created |-> FALSE]

\* extract_document has not been called
NoDict == [returned |-> FALSE, raised |-> FALSE]

Data(po_number, vendor_name) ==
    ExtractedData(po_number, vendor_name, None, Null, Null, Null, Null)

\* po_data.po_number.strip().upper() == other.po_number.strip().upper(),
\* guarded by both numbers being truthy
PoNumbersEqual(a, b) ==
    /\ Truthy(a.po_number)
    /\ Truthy(b.po_number)
    /\ Upper(Strip(a.po_number)) = Upper(Strip(b.po_number))

VendorNamesMatch(name1, name2) ==
    IF ~Truthy(name1) \/ ~Truthy(name2) THEN FALSE
    ELSE LET name1_clean == Upper(Strip(name1))
             name2_clean == Upper(Strip(name2))
         IN IF name1_clean = name2_clean THEN TRUE
            ELSE FuzzRatio(name1_clean, name2_clean)
                     >= VENDOR_NAME_SIMILARITY_THRESHOLD * 1000

\* the body of the loops of _find_matching_invoice and
\* _find_matching_delivery_note: does this candidate make the loop return?
CandidateMatches(po_data, cand) ==
    /\ cand.extracted
    /\ \/ PoNumbersEqual(po_data, cand)
       \/ /\ Truthy(po_data.vendor_name)
          /\ Truthy(cand.vendor_name)
          /\ VendorNamesMatch(po_data.vendor_name, cand.vendor_name)

FirstMatching(po_data, docs) ==
    LET M == {i \in 1..Len(docs) : CandidateMatches(po_data, docs[i])}
    IN IF M = {} THEN 0 ELSE Min(M)

FindMatchingInvoice_LastSeen(po_data, invs) ==
    IF ~po_data.extracted THEN 0
    ELSE IF FirstMatching(po_data, invs) # 0 THEN FirstMatching(po_data, invs)
    ELSE LET E == {i \in 1..Len(invs) : invs[i].extracted}
         IN IF E = {} THEN 0 ELSE Min(E)

FindMatchingInvoice(po_data, invs) ==
    IF ~po_data.extracted THEN 0 ELSE FirstMatching(po_data, invs)

FindMatchingDeliveryNote(po_data, dns) ==
    IF ~po_data.extracted THEN 0 ELSE FirstMatching(po_data, dns)

MatchedBy(po_data, invoice_data) ==
    IF PoNumbersEqual(po_data, invoice_data) THEN "po_number" ELSE "vendor_name"

-----------------------------------------------------------------------------
(* Line items: a dict with the keys item_number, description, quantity and  *)
(* unit_price; a missing key and a None value are the same to dict.get.     *)

Item(item_number, description, quantity, unit_price) ==
    [ item_number |-> item_number, description |-> description,
      quantity |-> quantity, unit_price |-> unit_price ]

\* a null po_value, invoice_value or delivery_value of a discrepancy
NoneValue == [none |-> TRUE]

\* x or y, for strings
StrOr(x, y) == IF Truthy(x) THEN x ELSE y

\* x or 0, for numbers
NumOr0(x) == IF x = Null THEN 0 ELSE CHOOSE n \in x : TRUE

Digits == <<"0", "1", "2", "3", "4", "5", "6", "7", "8", "9">>

IsDigit(c) == \E d \in 1..Len(Digits) : Digits[d] = c

DigitValue(c) == (CHOOSE d \in 1..Len(Digits) : Digits[d] = c) - 1

\* str.isdigit()
IsDigitString(s) == s # <<>> /\ \A i \in 1..Len(s) : IsDigit(s[i])

\* does int(s) succeed: an optional sign and at least one digit (blanks
\* around the number are already stripped; "_" separators are not modelled)
ParsesAsInt(s) ==
    LET body == IF s # <<>> /\ Head(s) \in {"+", "-"} THEN Tail(s) ELSE s
    IN IsDigitString(body)

RECURSIVE DigitsValue(_, _)
DigitsValue(s, acc) ==
    IF s = <<>> THEN acc ELSE DigitsValue(Tail(s), 10 * acc + DigitValue(Head(s)))

\* int(s)
IntOf(s) ==
    IF Head(s) = "-" THEN 0 - DigitsValue(Tail(s), 0)
    ELSE IF Head(s) = "+" THEN DigitsValue(Tail(s), 0)
    ELSE DigitsValue(s, 0)

RECURSIVE NatToStr(_)
NatToStr(n) ==
    IF n < 10 THEN << Digits[n + 1] >>
    ELSE NatToStr(n \div 10) \o << Digits[(n % 10) + 1] >>

\* str(n)
IntToStr(n) == IF n < 0 THEN <<"-">> \o NatToStr(0 - n) ELSE NatToStr(n)

NormalizeItemNumber(item_num) ==
    IF ~Truthy(item_num) THEN <<>>
    ELSE LET stripped == Strip(item_num)
         IN IF ParsesAsInt(stripped) THEN IntToStr(IntOf(stripped)) ELSE stripped

\* (item.get("item_number") or "").strip()
ItemNum(item) == Strip(StrOr(item.item_number, <<>>))

\* (item.get("description") or "").strip()
Desc(item) == Strip(StrOr(item.description, <<>>))

\* the three item-number tests of the inner loop, each of which breaks
ItemNumbersMatch(item1, item2) ==
    LET item_num1 == ItemNum(item1)
        item_num2 == ItemNum(item2)
        normalized_num1 == NormalizeItemNumber(item_num1)
        normalized_num2 == NormalizeItemNumber(item_num2)
    IN \/ /\ normalized_num1 # <<>>
          /\ normalized_num2 # <<>>
          /\ normalized_num1 = normalized_num2
       \/ /\ item_num1 # <<>>
          /\ item_num2 # <<>>
          /\ item_num1 = item_num2
       \/ /\ IsDigitString(item_num1)
          /\ IsDigitString(item_num2)
          /\ IntOf(item_num1) = IntOf(item_num2)

\* fuzz.ratio(desc1.upper(), desc2.upper()) when both are non-empty, else
\* no score
DescriptionScore_CaseSensitive(item1, item2) ==
    IF Desc(item1) # <<>> /\ Desc(item2) # <<>>
    THEN FuzzRatio(Desc(item1), Desc(item2))
    ELSE -1

DescriptionScore(item1, item2) ==
    IF Desc(item1) # <<>> /\ Desc(item2) # <<>>
    THEN FuzzRatio(Upper(Desc(item1)), Upper(Desc(item2)))
    ELSE -1

IsUsed_Never(j, used_indices_2) == FALSE

\* "if j in used_indices_2: continue"
IsUsed(j, used_indices_2) == j \in used_indices_2

\* the inner loop over items2 from position j on: <<best_index, best_score>>,
\* best_index = 0 when best_match is None
RECURSIVE ScanItems2(_, _, _, _, _, _)
ScanItems2(item1, items2, used_indices_2, j, best_index, best_score) ==
    IF j > Len(items2) THEN <<best_index, best_score>>
    ELSE IF IsUsed(j, used_indices_2)
    THEN ScanItems2(item1, items2, used_indices_2, j + 1, best_index, best_score)
    ELSE IF ItemNumbersMatch(item1, items2[j]) THEN <<j, 100 * 1000>>
    ELSE LET score == DescriptionScore(item1, items2[j])
         IN IF /\ score > best_score
               /\ score >= ITEM_DESCRIPTION_SIMILARITY_THRESHOLD * 1000
            THEN ScanItems2(item1, items2, used_indices_2, j + 1, j, score)
            ELSE ScanItems2(item1, items2, used_indices_2, j + 1,
                            best_index, best_score)

\* the match dict, whose keys are named after source1 = "PO" and source2
MatchRecord(source2, i, item1, j, item2, score) ==
    IF source2 = "Invoice"
    THEN [ po_index |-> i, po_item |-> item1,
           invoice_index |-> j, invoice_item |-> item2, score |-> score ]
    ELSE [ po_index |-> i, po_item |-> item1,
           dn_index |-> j, dn_item |-> item2, score |-> score ]

\* the outer loop over items1 from position i on
RECURSIVE MatchItemsFrom(_, _, _, _, _)
MatchItemsFrom(items1, items2, source2, i, used_indices_2) ==
    IF i > Len(items1) THEN <<>>
    ELSE LET best == ScanItems2(items1[i], items2, used_indices_2, 1, 0, 0)
         IN IF best[1] # 0
            THEN << MatchRecord(source2, i, items1[i], best[1],
                                items2[best[1]], best[2]) >>
                 \o MatchItemsFrom(items1, items2, source2, i + 1,
                                   used_indices_2 \cup {best[1]})
            ELSE MatchItemsFrom(items1, items2, source2, i + 1, used_indices_2)

MatchItems(items1, items2, source2) ==
    MatchItemsFrom(items1, items2, source2, 1, {})

-----------------------------------------------------------------------------
(* Severities: diff_percentage = abs(expected - actual) / expected * 100 is  *)
(* compared with a limit without dividing                                    *)

PercentageAtLeast(expected, actual, limit) ==
    IF expected > 0
    THEN Abs(expected - actual) * 100 >= limit * expected
    ELSE Abs(expected - actual) * 100 <= limit * expected

CalculateQuantityDiscrepancySeverity(expected_qty, actual_qty) ==
    IF expected_qty = 0 THEN "medium"
    ELSE IF PercentageAtLeast(expected_qty, actual_qty, 50) THEN "critical"
    ELSE IF PercentageAtLeast(expected_qty, actual_qty, 20) THEN "high"
    ELSE IF PercentageAtLeast(expected_qty, actual_qty, 10) THEN "medium"
    ELSE "low"

CalculatePriceDiscrepancySeverity_QuantityLimits(expected_price, actual_price) ==
    CalculateQuantityDiscrepancySeverity(expected_price, actual_price)

CalculatePriceDiscrepancySeverity(expected_price, actual_price) ==
    IF expected_price = 0 THEN "medium"
    ELSE IF PercentageAtLeast(expected_price, actual_price, 20) THEN "critical"
    ELSE IF PercentageAtLeast(expected_price, actual_price, 10) THEN "high"
    ELSE IF PercentageAtLeast(expected_price, actual_price, 5) THEN "medium"
    ELSE "low"

-----------------------------------------------------------------------------
(* _compare_line_items *)

Discrepancy(type, severity, item_number, description, po_value, invoice_value, delivery_value, message) ==
    [ type |-> type, severity |-> severity, item_number |-> item_number,
      description |-> description, po_value |-> po_value,
      invoice_value |-> invoice_value, delivery_value |-> delivery_value,
      message |-> message ]

QuantityExceedsTolerance_Inclusive(qty1, qty2) ==
    Abs(qty1 - qty2) >= QUANTITY_TOLERANCE

QuantityExceedsTolerance(qty1, qty2) == Abs(qty1 - qty2) > QUANTITY_TOLERANCE

QuantityMismatch(match) ==
    LET po_item == match.po_item
        invoice_item == match.invoice_item
        po_qty == NumOr0(po_item.quantity)
        inv_qty == NumOr0(invoice_item.quantity)
    IN IF QuantityExceedsTolerance(po_qty, inv_qty)
       THEN << Discrepancy("quantity_mismatch",
                  CalculateQuantityDiscrepancySeverity(po_qty, inv_qty),
                  StrOr(po_item.item_number, invoice_item.item_number),
                  StrOr(po_item.description, invoice_item.description),
                  [quantity |-> po_qty], [quantity |-> inv_qty], NoneValue,
                  <<"Quantity mismatch", "PO", po_qty, "Invoice", inv_qty>>) >>
       ELSE <<>>

PricesComparable(po_price, inv_price) == po_price > 0 /\ inv_price > 0

PriceChange(match) ==
    LET po_item == match.po_item
        invoice_item == match.invoice_item
        po_price == NumOr0(po_item.unit_price)
        inv_price == NumOr0(invoice_item.unit_price)
    IN IF /\ PricesComparable(po_price, inv_price)
          /\ Abs(po_price - inv_price) > PRICE_TOLERANCE
       THEN << Discrepancy("price_change",
                  CalculatePriceDiscrepancySeverity(po_price, inv_price),
                  StrOr(po_item.item_number, invoice_item.item_number),
                  StrOr(po_item.description, invoice_item.description),
                  [unit_price |-> po_price], [unit_price |-> inv_price], NoneValue,
                  <<"Price change", "PO", po_price, "Invoice", inv_price>>) >>
       ELSE <<>>

DescriptionMismatch(match) ==
    LET po_item == match.po_item
        invoice_item == match.invoice_item
    IN IF match.score < ITEM_DESCRIPTION_SIMILARITY_THRESHOLD * 1000
       THEN << Discrepancy("description_mismatch", "low",
                  StrOr(po_item.item_number, invoice_item.item_number),
                  StrOr(po_item.description, invoice_item.description),
                  [description |-> po_item.description],
                  [description |-> invoice_item.description], NoneValue,
                  <<"Description similarity", match.score>>) >>
       ELSE <<>>

\* the body of "for match in matched_items"
MatchedItemDiscrepancies(match) ==
    QuantityMismatch(match) \o PriceChange(match) \o DescriptionMismatch(match)

MatchedPoIndices(matches) == {matches[k].po_index : k \in 1..Len(matches)}

MatchedInvoiceIndices_PoIndex(matches) ==
    {matches[k].po_index : k \in 1..Len(matches)}

MatchedInvoiceIndices(matches) == {matches[k].invoice_index : k \in 1..Len(matches)}

RECURSIVE MissingItemsFrom(_, _, _)
MissingItemsFrom(items, matches, i) ==
    IF i > Len(items) THEN <<>>
    ELSE (IF i \notin MatchedPoIndices(matches)
          THEN << Discrepancy("missing_item", "high", items[i].item_number,
                     items[i].description, items[i], NoneValue, NoneValue,
                     <<"Item in PO but not in Invoice", items[i].description>>) >>
          ELSE <<>>)
         \o MissingItemsFrom(items, matches, i + 1)

RECURSIVE ExtraItemsFrom(_, _, _)
ExtraItemsFrom(items, matches, i) ==
    IF i > Len(items) THEN <<>>
    ELSE (IF i \notin MatchedInvoiceIndices(matches)
          THEN << Discrepancy("extra_item", "medium", items[i].item_number,
                     items[i].description, NoneValue, items[i], NoneValue,
                     <<"Item in Invoice but not in PO", items[i].description>>) >>
          ELSE <<>>)
         \o ExtraItemsFrom(items, matches, i + 1)

\* next(d for d in discrepancies if d["item_number"] == item_num and
\*      d["type"] == "quantity_mismatch"), 0 when there is none
ExistingQuantityMismatch(discs, item_num) ==
    LET E == {k \in 1..Len(discs) :
                 discs[k].item_number = item_num /\ discs[k].type = "quantity_mismatch"}
    IN IF E = {} THEN 0 ELSE Min(E)

\* the body of "for match in dn_matched_items"
DeliveryNoteCheck(discs, match) ==
    LET po_item == match.po_item
        dn_item == match.dn_item
        po_qty == NumOr0(po_item.quantity)
        dn_qty == NumOr0(dn_item.quantity)
        item_num == po_item.item_number
        existing == ExistingQuantityMismatch(discs, item_num)
    IN IF ~QuantityExceedsTolerance(po_qty, dn_qty) THEN discs
       ELSE IF existing # 0
       THEN [discs EXCEPT ![existing].delivery_value = [quantity |-> dn_qty],
                          ![existing].message = @ \o <<"DN", dn_qty>>]
       ELSE Append(discs,
               Discrepancy("quantity_mismatch",
                  CalculateQuantityDiscrepancySeverity(po_qty, dn_qty),
                  item_num, po_item.description,
                  [quantity |-> po_qty], NoneValue, [quantity |-> dn_qty],
                  <<"Quantity mismatch", "PO", po_qty, "DN", dn_qty>>))

RECURSIVE DeliveryNoteChecksFrom(_, _, _)
DeliveryNoteChecksFrom(discs, dn_matched_items, k) ==
    IF k > Len(dn_matched_items) THEN discs
    ELSE DeliveryNoteChecksFrom(DeliveryNoteCheck(discs, dn_matched_items[k]),
                                dn_matched_items, k + 1)

-----------------------------------------------------------------------------
(* _create_matching_result(workspace_id, po, po_data, invoice, invoice_data, *)
(* delivery_note, dn_data): the header fields of ExtractedData it reads, the *)
(* checks that follow _compare_line_items, the totals and the result.        *)
(* Rates are in thousandths of a percentage point, amounts in thousandths.   *)

\* a line item that carries a line_total
TotalItem(item_number, line_total) ==
    [ item_number |-> item_number, description |-> <<"A", "B">>,
      quantity |-> {1000}, unit_price |-> Null, line_total |-> line_total ]

\* the value of a number that is not None
NumberOf(x) == CHOOSE n \in x : TRUE

\* truth value of an optional number: None and 0 are false
NumTruthy(x) == x # Null /\ x # {0}

\* float(x) if x else None
FloatIfTruthy(x) == IF NumTruthy(x) THEN x ELSE Null

\* the digits after the decimal point in str(x) of a float with at most
\* three decimals: trailing zeros are dropped, one digit is kept
FractionDigits(n) ==
    IF n % 1000 = 0 THEN <<"0">>
    ELSE IF n % 100 = 0 THEN << Digits[(n \div 100) + 1] >>
    ELSE IF n % 10 = 0
    THEN << Digits[(n \div 100) + 1], Digits[((n \div 10) % 10) + 1] >>
    ELSE << Digits[(n \div 100) + 1], Digits[((n \div 10) % 10) + 1],
            Digits[(n % 10) + 1] >>

\* str(x) of a float x given in thousandths
FloatToStr(x) ==
    (IF x < 0 THEN <<"-">> ELSE <<>>)
        \o NatToStr(Abs(x) \div 1000) \o <<".">> \o FractionDigits(Abs(x) % 1000)

CurrencyMismatch_CaseSensitive(po, inv) ==
    IF /\ Truthy(po.currency_code)
       /\ Truthy(inv.currency_code)
       /\ po.currency_code # inv.currency_code
    THEN << Discrepancy("currency_mismatch", "high", None,
               <<"Currency Mismatch">>,
               [currency_code |-> po.currency_code],
               [currency_code |-> inv.currency_code], NoneValue,
               <<"Currency mismatch", "PO", po.currency_code,
                 "Invoice", inv.currency_code>>) >>
    ELSE <<>>

CurrencyMismatch(po, inv) ==
    IF /\ Truthy(po.currency_code)
       /\ Truthy(inv.currency_code)
       /\ Upper(po.currency_code) # Upper(inv.currency_code)
    THEN << Discrepancy("currency_mismatch", "high", None,
               <<"Currency Mismatch">>,
               [currency_code |-> po.currency_code],
               [currency_code |-> inv.currency_code], NoneValue,
               <<"Currency mismatch", "PO", po.currency_code,
                 "Invoice", inv.currency_code>>) >>
    ELSE <<>>

TaxRateSeverity_Inclusive(tax_rate_diff) ==
    IF tax_rate_diff >= 5000 THEN "critical" ELSE "high"

\* CRITICAL if tax_rate_diff > 5.0 else HIGH
TaxRateSeverity(tax_rate_diff) ==
    IF tax_rate_diff > 5000 THEN "critical" ELSE "high"

TaxRateMismatch(po, inv) ==
    IF po.tax_rate # Null /\ inv.tax_rate # Null
    THEN LET tax_rate_diff == Abs(NumberOf(po.tax_rate) - NumberOf(inv.tax_rate))
         IN IF tax_rate_diff > 100
            THEN << Discrepancy("tax_rate_mismatch",
                       TaxRateSeverity(tax_rate_diff), None,
                       <<"Tax Rate Mismatch">>,
                       [tax_rate |-> NumberOf(po.tax_rate),
                        tax_amount |-> FloatIfTruthy(po.tax_amount)],
                       [tax_rate |-> NumberOf(inv.tax_rate),
                        tax_amount |-> FloatIfTruthy(inv.tax_amount)],
                       NoneValue,
                       <<"Tax rate mismatch", "PO", NumberOf(po.tax_rate),
                         "Invoice", NumberOf(inv.tax_rate)>>) >>
            ELSE <<>>
    ELSE <<>>

\* 100 * tolerance, where
\* tolerance = max(1.0, min(po_tax, inv_tax) * 0.01) if po_tax > 0 and inv_tax > 0 else 1.0
Tolerance100(po_tax, inv_tax) ==
    IF po_tax > 0 /\ inv_tax > 0
    THEN IF po_tax <= inv_tax
         THEN (IF 100 * 1000 >= po_tax THEN 100 * 1000 ELSE po_tax)
         ELSE (IF 100 * 1000 >= inv_tax THEN 100 * 1000 ELSE inv_tax)
    ELSE 100 * 1000

\* 100000 * expected tax, where expected tax = subtotal * (tax_rate / 100)
ExpectedTax100000(data) == NumberOf(data.subtotal) * NumberOf(data.tax_rate)

\* abs(tax - expected_tax) > tolerance, computed exactly from
\* 100000 * expected_tax and 100 * tolerance
DeviatesBeyond(tax, expected100000, tolerance100) ==
    LET whole == expected100000 \div 1000
        rest == expected100000 % 1000
        d == 100 * tax - whole
    IN IF rest = 0 THEN Abs(d) > tolerance100
       ELSE d >= tolerance100 + 1 \/ d <= 0 - tolerance100

\* "if expected_tax and abs(tax - expected_tax) > tolerance"
IsCalculationError(data, tolerance100) ==
    /\ NumTruthy(data.subtotal) /\ NumTruthy(data.tax_rate)
    /\ ExpectedTax100000(data) # 0
    /\ DeviatesBeyond(NumberOf(data.tax_amount), ExpectedTax100000(data),
                      tolerance100)

TaxAmountSeverity_RateLimits(tax_amount_diff) ==
    IF tax_amount_diff > 5000 THEN "critical"
    ELSE IF tax_amount_diff > 100 THEN "high" ELSE "medium"

\* CRITICAL if tax_amount_diff > 100 else (HIGH if tax_amount_diff > 10 else MEDIUM)
TaxAmountSeverity(tax_amount_diff) ==
    IF tax_amount_diff > 100 * 1000 THEN "critical"
    ELSE IF tax_amount_diff > 10 * 1000 THEN "high" ELSE "medium"

TaxAmountMismatch(po, inv) ==
    IF po.tax_amount # Null /\ inv.tax_amount # Null
    THEN LET po_tax == NumberOf(po.tax_amount)
             inv_tax == NumberOf(inv.tax_amount)
             tax_amount_diff == Abs(po_tax - inv_tax)
             tolerance100 == Tolerance100(po_tax, inv_tax)
         IN IF /\ 100 * tax_amount_diff > tolerance100
               /\ ~IsCalculationError(po, tolerance100)
               /\ ~IsCalculationError(inv, tolerance100)
            THEN << Discrepancy("tax_amount_mismatch",
                       TaxAmountSeverity(tax_amount_diff), None,
                       <<"Tax Amount Mismatch">>,
                       [tax_amount |-> po_tax,
                        tax_rate |-> FloatIfTruthy(po.tax_rate)],
                       [tax_amount |-> inv_tax,
                        tax_rate |-> FloatIfTruthy(inv.tax_rate)],
                       NoneValue,
                       <<"Tax amount mismatch", "PO", po_tax, "Invoice", inv_tax,
                         "difference", tax_amount_diff>>) >>
            ELSE <<>>
    ELSE <<>>

RECURSIVE CalculateTotalFromLineItems(_)
CalculateTotalFromLineItems(line_items) ==
    IF line_items = <<>> THEN 0
    ELSE LET item == line_items[Len(line_items)]
             line_total == IF "line_total" \in DOMAIN item THEN item.line_total ELSE Null
             before == CalculateTotalFromLineItems(
                           SubSeq(line_items, 1, Len(line_items) - 1))
         IN IF NumTruthy(line_total) THEN before + NumberOf(line_total)
            ELSE before

CalculateDocumentTotal(data, line_items) ==
    IF NumTruthy(data.total_amount) THEN NumberOf(data.total_amount)
    ELSE IF NumTruthy(data.subtotal) /\ NumTruthy(data.tax_amount)
    THEN NumberOf(data.subtotal) + NumberOf(data.tax_amount)
    ELSE CalculateTotalFromLineItems(line_items)

VendorNameMatch_Raw(po, inv) ==
    IF Truthy(po.vendor_name) /\ Truthy(inv.vendor_name)
    THEN FuzzRatio(Upper(po.vendor_name), Upper(inv.vendor_name))
    ELSE 0

\* scores["vendor_name_match"]
VendorNameMatch(po, inv) ==
    IF Truthy(po.vendor_name) /\ Truthy(inv.vendor_name)
    THEN FuzzRatio(Upper(Strip(po.vendor_name)), Upper(Strip(inv.vendor_name)))
    ELSE 0

PoNumberMatch_Exact(po, inv) ==
    IF Truthy(po.po_number) /\ po.po_number = inv.po_number THEN 100 * 1000 ELSE 0

\* scores["po_number_match"]
PoNumberMatch(po, inv) == IF PoNumbersEqual(po, inv) THEN 100 * 1000 ELSE 0

CalculateConfidenceScores(po, inv, matched_by) ==
    [ po_number_match |-> PoNumberMatch(po, inv),
      vendor_name_match |-> VendorNameMatch(po, inv),
      overall |-> IF matched_by = "po_number" THEN PoNumberMatch(po, inv)
                  ELSE VendorNameMatch(po, inv) ]

\* po_data.vendor_name or invoice_data.vendor_name or "Unknown Vendor"
ResolvedVendorName(po, inv) ==
    StrOr(po.vendor_name, StrOr(inv.vendor_name, <<"U", "n", "k", "n", "o", "w", "n", " ", "V",
                              "e", "n", "d", "o", "r">>))

\* the MatchingResult, with match_confidence as the JSON object that
\* json.dumps writes
MatchingResult(po, inv, dn, line_items_po, line_items_inv, line_items_dn, discs) ==
    LET matched_by == MatchedBy(po, inv)
        confidence_scores == CalculateConfidenceScores(po, inv, matched_by)
        po_total == CalculateDocumentTotal(po, line_items_po)
        invoice_total == CalculateDocumentTotal(inv, line_items_inv)
        dn_total == IF dn.extracted
                    THEN CalculateDocumentTotal(dn, line_items_dn) ELSE 0
        total_difference == Abs(invoice_total - po_total)
    IN [ created |-> TRUE,
         matched_by |-> matched_by,
         match_confidence |->
             [ po_number_match |-> confidence_scores.po_number_match,
               vendor_name_match |-> confidence_scores.vendor_name_match,
               overall |-> confidence_scores.overall,
               vendor_name |-> ResolvedVendorName(po, inv) ],
         total_po_amount |-> FloatToStr(po_total),
         total_invoice_amount |-> FloatToStr(invoice_total),
         total_delivery_amount |->
             IF dn_total # 0 THEN FloatToStr(dn_total) ELSE None,
         total_difference |-> FloatToStr(total_difference),
         discrepancies |-> discs ]

-----------------------------------------------------------------------------
(* The groupings of match_documents_in_workspace *)

\* an ExtractedData row with line items
WithLineItems(data, line_items) ==
    [ extracted |-> TRUE, po_number |-> data.po_number,
      vendor_name |-> data.vendor_name, currency_code |-> data.currency_code,
      tax_rate |-> data.tax_rate, tax_amount |-> data.tax_amount,
      subtotal |-> data.subtotal, total_amount |-> data.total_amount,
      line_items |-> line_items ]

\* data.line_items or []
LineItemsOf(data) ==
    IF "line_items" \in DOMAIN data THEN data.line_items ELSE <<>>

RECURSIVE MatchedItemsDiscrepanciesFrom(_, _)
MatchedItemsDiscrepanciesFrom(matches, k) ==
    IF k > Len(matches) THEN <<>>
    ELSE MatchedItemDiscrepancies(matches[k])
            \o MatchedItemsDiscrepanciesFrom(matches, k + 1)

\* _compare_line_items(po_data, invoice_data, dn_data) in one piece
CompareLineItems(items_po, items_inv, items_dn) ==
    LET matches == MatchItems(items_po, items_inv, "Invoice")
        discs == MatchedItemsDiscrepanciesFrom(matches, 1)
                    \o MissingItemsFrom(items_po, matches, 1)
                    \o ExtraItemsFrom(items_inv, matches, 1)
    IN IF items_dn # <<>>
       THEN DeliveryNoteChecksFrom(discs, MatchItems(items_po, items_dn, "DN"), 1)
       ELSE discs

\* the discrepancy list of the MatchingResult
AllDiscrepancies(po, inv, dn) ==
    CompareLineItems(LineItemsOf(po), LineItemsOf(inv),
                     IF dn.extracted THEN LineItemsOf(dn) ELSE <<>>)
        \o CurrencyMismatch(po, inv)
        \o TaxRateMismatch(po, inv)
        \o TaxAmountMismatch(po, inv)

\* the MatchingResult row: the ids of its documents and the computed fields
ResultRow(po, invoice, delivery_note, r) ==
    [ po_document_id |-> po,
      invoice_document_id |-> invoice,
      delivery_note_document_id |-> delivery_note,
      matched_by |-> r.matched_by,
      match_confidence |-> r.match_confidence,
      total_po_amount |-> r.total_po_amount,
      total_invoice_amount |-> r.total_invoice_amount,
      total_delivery_amount |-> r.total_delivery_amount,
      total_difference |-> r.total_difference,
      discrepancies |-> r.discrepancies ]

\* _create_matching_result for the documents at the given positions; the
\* position 0 is no delivery note
CreateMatchingResult(po, invoice, delivery_note) ==
    LET dn_data == IF delivery_note = 0 THEN NoData ELSE delivery_notes[delivery_note]
    IN ResultRow(po, invoice, delivery_note,
                 MatchingResult(pos[po], invoices[invoice], dn_data,
                                LineItemsOf(pos[po]), LineItemsOf(invoices[invoice]),
                                LineItemsOf(dn_data),
                                AllDiscrepancies(pos[po], invoices[invoice], dn_data)))

\* one iteration of the loop over the purchase orders
FirstPassFor(po) ==
    IF ~pos[po].extracted THEN <<>>
    ELSE LET matched_invoice == FindMatchingInvoice(pos[po], invoices)
             matched_dn == FindMatchingDeliveryNote(pos[po], delivery_notes)
         IN IF matched_invoice # 0
            THEN << CreateMatchingResult(po, matched_invoice, matched_dn) >>
            ELSE <<>>

RECURSIVE FirstPassFrom(_)
FirstPassFrom(po) ==
    IF po > Len(pos) THEN <<>> ELSE FirstPassFor(po) \o FirstPassFrom(po + 1)

AlreadyMatched_Never(invoice, results) == FALSE

AlreadyMatched_Stored(invoice, results) ==
    \E k \in 1..Len(db_results) : db_results[k].invoice_document_id = invoice

AlreadyMatched(invoice, results) ==
    \E k \in 1..Len(results) : results[k].invoice_document_id = invoice

SecondChancePO_AnyVendor(invoice) ==
    LET M == {p \in 1..Len(pos) : pos[p].extracted}
    IN IF M = {} THEN 0 ELSE Min(M)

\* the first purchase order the inner loop of the second pass breaks on
SecondChancePO(invoice) ==
    LET M == {p \in 1..Len(pos) :
                 /\ pos[p].extracted
                 /\ VendorNamesMatch(invoices[invoice].vendor_name,
                                     pos[p].vendor_name)}
    IN IF M = {} THEN 0 ELSE Min(M)

\* one iteration of the loop over the invoices
SecondPassFor(invoice, results) ==
    IF AlreadyMatched(invoice, results) THEN <<>>
    ELSE IF ~(invoices[invoice].extracted /\ Truthy(invoices[invoice].vendor_name))
    THEN <<>>
    ELSE LET po == SecondChancePO(invoice)
         IN IF po = 0 THEN <<>>
            ELSE << CreateMatchingResult(po, invoice,
                       FindMatchingDeliveryNote(pos[po], delivery_notes)) >>

RECURSIVE SecondPassFrom(_, _)
SecondPassFrom(invoice, results) ==
    IF invoice > Len(invoices) THEN results
    ELSE SecondPassFrom(invoice + 1, results \o SecondPassFor(invoice, results))

-----------------------------------------------------------------------------
(* match_documents_in_workspace *)

Init ==
    /\ pc = "first_pass"
    /\ pos \in SeqsUpTo({ NoData, Data(<<"P", "1">>, <<"A", "C", "M",
                          "E">>), Data(<<"P", "2">>, <<" ", "A", "c", "m",
                          "e">>), Data(None, <<"B", "X">>) }, MaxPOs)
    /\ invoices \in SeqsUpTo({ NoData, Data(<<"p", "1", " ">>, <<"B", "X">>),
                              Data(None, <<"A", "c", "m">>), Data(<<"p", "1",
                              " ">>, <<"A", "C", "M">>), Data(<<"P", "2">>,
                              <<>>) }, MaxInvoices)
    /\ delivery_notes \in SeqsUpTo({ NoData, Data(<<"p", "1", " ">>, None),
                              Data(None, <<"A", "C", "M", "E">>) }, MaxDNs)
    /\ matching_results = <<>>
    /\ db_results = <<>>
    /\ po_items = <<>>
    /\ invoice_items = <<>>
    /\ dn_items = <<>>
    /\ matched_items = <<>>
    /\ cmp_index = 0
    /\ discrepancies = <<>>
    /\ po_extracted = NoData
    /\ invoice_extracted = NoData
    /\ dn_extracted = NoData
    /\ result = NoResult
    /\ documents = <<>>
    /\ extracted_data = <<>>
    /\ extracted_data_dict = NoDict
    /\ returned = <<>>
    /\ po_table = <<>>

FirstPass ==
    /\ pc = "first_pass"
    /\ matching_results' = FirstPassFrom(1)
    /\ pc' = "second_pass"
    /\ UNCHANGED <<pos, invoices, delivery_notes, db_results, itemVars, dataVars, storeVars>>

SecondPass ==
    /\ pc = "second_pass"
    /\ matching_results' = SecondPassFrom(1, matching_results)
    /\ pc' = "save"
    /\ UNCHANGED <<pos, invoices, delivery_notes, db_results, itemVars, dataVars, storeVars>>

AddAll_Replace(rows, results) == results

\* the table after "for result in matching_results: self.db.add(result)" and
\* the commit
AddAll(rows, results) == rows \o results

SaveResults ==
    /\ pc = "save"
    /\ db_results' = AddAll(db_results, matching_results)
    /\ returned' = Append(returned, matching_results)
    /\ pc' = "returned"
    /\ UNCHANGED <<pos, invoices, delivery_notes, matching_results, itemVars, dataVars, documents, extracted_data, extracted_data_dict, po_table>>

Next == FirstPass \/ SecondPass \/ SaveResults

Spec == Init /\ [][Next]_vars

-----------------------------------------------------------------------------
(* _compare_line_items(po_data, invoice_data, dn_data), one step for the     *)
(* call of _match_items, one for each matched pair and one for each of the  *)
(* loops that follow                                                        *)

StartCompare ==
    /\ pc = "match_items"
    /\ matched_items' = MatchItems(po_items, invoice_items, "Invoice")
    /\ cmp_index' = 1
    /\ pc' = IF matched_items' # <<>> THEN "matched_item" ELSE "missing_items"
    /\ UNCHANGED <<wsVars, storeVars, dataVars, po_items, invoice_items, dn_items, discrepancies>>

CompareMatchedItem ==
    /\ pc = "matched_item"
    /\ discrepancies' =
          discrepancies \o MatchedItemDiscrepancies(matched_items[cmp_index])
    /\ cmp_index' = cmp_index + 1
    /\ pc' = IF cmp_index = Len(matched_items) THEN "missing_items" ELSE "matched_item"
    /\ UNCHANGED <<wsVars, storeVars, dataVars, po_items, invoice_items, dn_items, matched_items>>

FindMissingItems ==
    /\ pc = "missing_items"
    /\ discrepancies' = discrepancies \o MissingItemsFrom(po_items, matched_items, 1)
    /\ pc' = "extra_items"
    /\ UNCHANGED <<wsVars, storeVars, dataVars, po_items, invoice_items, dn_items, matched_items, cmp_index>>

FindExtraItems ==
    /\ pc = "extra_items"
    /\ discrepancies' = discrepancies \o ExtraItemsFrom(invoice_items, matched_items, 1)
    /\ pc' = "delivery_note"
    /\ UNCHANGED <<wsVars, storeVars, dataVars, po_items, invoice_items, dn_items, matched_items, cmp_index>>

CompareDeliveryNote ==
    /\ pc = "delivery_note"
    /\ discrepancies' =
          IF dn_items # <<>>
          THEN DeliveryNoteChecksFrom(discrepancies,
                                      MatchItems(po_items, dn_items, "DN"), 1)
          ELSE discrepancies
    /\ pc' = "compared"
    /\ UNCHANGED <<wsVars, storeVars, dataVars, po_items, invoice_items, dn_items, matched_items, cmp_index>>

NextItems ==
    \/ StartCompare
    \/ CompareMatchedItem
    \/ FindMissingItems
    \/ FindExtraItems
    \/ CompareDeliveryNote

\* line items that differ in item number and description
MatchPoItems ==
    { Item(None, <<"a", "b", " ">>, {1000}, {5000}),
      Item(<<"0", "1", "3">>, <<"X", "Y", "Z">>, {1000}, {5000}),
      Item(<<"1", "3">>, <<"a", "b", " ">>, {1000}, {5000}),
      Item(<<"A", "1">>, None, {1000}, {5000}),
      Item(None, None, {1000}, {5000}) }

MatchInvItems ==
    { Item(<<"1", "3">>, <<"A", "B">>, {1000}, {5000}),
      Item(None, <<"A", "B", "C">>, {1000}, {5000}),
      Item(<<"A", "1">>, <<"X", "Y", "Z">>, {1000}, {5000}),
      Item(<<"1", "3", " ">>, <<"x", "y", "z">>, {1000}, {5000}),
      Item(None, None, {1000}, {5000}) }

MatchDnItems ==
    { Item(<<"1", "3">>, <<"A", "B">>, {800}, Null) }

\* line items of one article that differ in quantity
QtyItem(quantity) == Item(<<"7">>, <<"A", "B">>, quantity, Null)

QtyPoItems == { QtyItem(q) : q \in {Null, {0}, {1000}, {10000}} }

QtyInvItems ==
    { QtyItem(q) : q \in {Null, {1010}, {1020}, {5000}, {8000}, {9000}, {10000}} }

\* line items of one article that differ in unit price
PriceItem(unit_price) == Item(<<"7">>, <<"A", "B">>, {1000}, unit_price)

PricePoItems == { PriceItem(p) : p \in {Null, {0}, {1000}, {10000}} }

PriceInvItems ==
    { PriceItem(p) : p \in {Null, {0}, {1010}, {1020}, {8000}, {9000}, {9500}} }

InitItems(PoItems, InvItems, DnItems) ==
    /\ pc = "match_items"
    /\ pos = <<>>
    /\ invoices = <<>>
    /\ delivery_notes = <<>>
    /\ matching_results = <<>>
    /\ db_results = <<>>
    /\ po_items \in SeqsUpTo(PoItems, MaxPoItems)
    /\ invoice_items \in SeqsUpTo(InvItems, MaxInvItems)
    /\ dn_items \in SeqsUpTo(DnItems, MaxDnItems)
    /\ matched_items = <<>>
    /\ cmp_index = 0
    /\ discrepancies = <<>>
    /\ po_extracted = NoData
    /\ invoice_extracted = NoData
    /\ dn_extracted = NoData
    /\ result = NoResult
    /\ documents = <<>>
    /\ extracted_data = <<>>
    /\ extracted_data_dict = NoDict
    /\ returned = <<>>
    /\ po_table = <<>>

SpecMatch == InitItems(MatchPoItems, MatchInvItems, MatchDnItems) /\ [][NextItems]_vars
SpecQty == InitItems(QtyPoItems, QtyInvItems, { QtyItem(q) : q \in {{1000}, {8000}} }) /\ [][NextItems]_vars
SpecPrice == InitItems(PricePoItems, PriceInvItems, { PriceItem(Null) }) /\ [][NextItems]_vars

-----------------------------------------------------------------------------
(* The steps of _create_matching_result that follow _compare_line_items *)

CheckCurrency ==
    /\ pc = "compared"
    /\ discrepancies' = discrepancies \o CurrencyMismatch(po_extracted, invoice_extracted)
    /\ pc' = "tax_rate"
    /\ UNCHANGED <<wsVars, storeVars, dataVars, po_items, invoice_items, dn_items, matched_items, cmp_index>>

CheckTaxRate ==
    /\ pc = "tax_rate"
    /\ discrepancies' = discrepancies \o TaxRateMismatch(po_extracted, invoice_extracted)
    /\ pc' = "tax_amount"
    /\ UNCHANGED <<wsVars, storeVars, dataVars, po_items, invoice_items, dn_items, matched_items, cmp_index>>

CheckTaxAmount ==
    /\ pc = "tax_amount"
    /\ discrepancies' = discrepancies \o TaxAmountMismatch(po_extracted, invoice_extracted)
    /\ pc' = "totals"
    /\ UNCHANGED <<wsVars, storeVars, dataVars, po_items, invoice_items, dn_items, matched_items, cmp_index>>

BuildResult ==
    /\ pc = "totals"
    /\ result' = MatchingResult(po_extracted, invoice_extracted, dn_extracted,
                                po_items, invoice_items, dn_items, discrepancies)
    /\ pc' = "created"
    /\ UNCHANGED <<wsVars, storeVars, itemVars, po_extracted, invoice_extracted, dn_extracted>>

NextCreate ==
    \/ StartCompare
    \/ CompareMatchedItem
    \/ FindMissingItems
    \/ FindExtraItems
    \/ CompareDeliveryNote
    \/ CheckCurrency
    \/ CheckTaxRate
    \/ CheckTaxAmount
    \/ BuildResult

InitCreate(PoData, InvData, DnData, PoItems, InvItems, DnItems) ==
    /\ pc = "match_items"
    /\ pos = <<>>
    /\ invoices = <<>>
    /\ delivery_notes = <<>>
    /\ matching_results = <<>>
    /\ db_results = <<>>
    /\ po_extracted \in PoData
    /\ invoice_extracted \in InvData
    /\ dn_extracted \in DnData
    /\ po_items \in SeqsUpTo(PoItems, MaxPoItems)
    /\ invoice_items \in SeqsUpTo(InvItems, MaxInvItems)
    /\ dn_items \in IF dn_extracted.extracted THEN SeqsUpTo(DnItems, MaxDnItems)
                    ELSE {<<>>}
    /\ matched_items = <<>>
    /\ cmp_index = 0
    /\ discrepancies = <<>>
    /\ result = NoResult
    /\ documents = <<>>
    /\ extracted_data = <<>>
    /\ extracted_data_dict = NoDict
    /\ returned = <<>>
    /\ po_table = <<>>

\* line items of one article, with and without a quantity mismatch
CreatePoItems == { QtyItem({1000}) }
CreateInvItems == { QtyItem({1000}), QtyItem({5000}) }
CreateDnItems == { QtyItem({1000}) }

\* a document whose header carries nothing but a number and a vendor
HeaderOnly ==
    ExtractedData(<<"P", "O", "-", "1">>, <<"A", "C", "M", "E">>, None,
                  Null, Null, Null, Null)

\* no delivery note, or one with line items only
CreateDnData == { NoData, HeaderOnly }

CurrencyData == { [HeaderOnly EXCEPT !.currency_code = c] : c \in 
                { None, <<"U", "S", "D">>, <<"u", "s", "d">>, <<"E", "U",
                  "R">>, <<"e", "u", "r", " ">> } }

SpecCurrency == InitCreate(CurrencyData, CurrencyData, CreateDnData,
                  CreatePoItems, CreateInvItems, CreateDnItems) /\ [][NextCreate]_vars

TaxRateData(rates) == { [HeaderOnly EXCEPT !.tax_rate = r] : r \in rates }

SpecTaxRate == InitCreate(TaxRateData({ Null, {0}, {8000}, {10000} }),
                 TaxRateData( { Null, {0}, {100}, {101}, {5000}, {5001},
                 {8100}, {8101}, {10000}, {13000}, {15000} }), CreateDnData,
                 CreatePoItems, CreateInvItems, CreateDnItems) /\ [][NextCreate]_vars

\* documents that differ in tax_amount, subtotal and tax_rate
TaxData(amounts, subtotals, rates) ==
    { [HeaderOnly EXCEPT !.tax_amount = a, !.subtotal = s, !.tax_rate = r] :
          a \in amounts, s \in subtotals, r \in rates }

TaxInvItems == { QtyItem({5000}) }

SpecTaxAmount == InitCreate(TaxData({Null, {0}, {10000}, {200000}}, {Null,
                   {0}, {100000}}, {Null, {0}, {10000}}), TaxData({Null, {0},
                   {10500}, {11000}, {11001}, {20000}, {20001}, {110000},
                   {110001}, {201500}, {202000}, {202500}}, {Null, {100000}},
                   {Null, {10000}, {20000}}), {NoData}, CreatePoItems,
                   TaxInvItems, CreateDnItems) /\ [][NextCreate]_vars

\* documents that differ in total_amount, subtotal and tax_amount
TotalData ==
    { [HeaderOnly EXCEPT !.total_amount = t, !.subtotal = s, !.tax_amount = a] :
          t \in {Null, {0}, {150000}}, s \in {Null, {0}, {100000}},
          a \in {Null, {0}, {10000}} }

SpecTotal == InitCreate(TotalData, TotalData, {NoData}, { TotalItem(<<"7">>,
               {40000}), QtyItem({1000}) }, { TotalItem(<<"7">>, {25000}) },
               CreateDnItems) /\ [][NextCreate]_vars

\* documents and line items that occur on both sides
FullHeader ==
    ExtractedData(<<"P", "O", "-", "1">>, <<"A", "C", "M", "E">>,
                  <<"U", "S", "D">>, {8000}, {8000}, {100000}, {108000})

SameData == { HeaderOnly, FullHeader }

SameItems ==
    { Item(<<"0", "1", "3">>, <<"X", "Y", "Z">>, {1000}, {5000}),
      Item(None, <<"a", "b", " ">>, {2000}, Null),
      Item(None, None, {1000}, {5000}) }

SpecSame == InitCreate(SameData, SameData, {NoData}, SameItems, SameItems, CreateDnItems) /\ [][NextCreate]_vars

\* documents that differ in po_number and vendor_name
ConfidenceData(numbers, names) ==
    { [HeaderOnly EXCEPT !.po_number = n, !.vendor_name = v] :
          n \in numbers, v \in names }

SpecConfidence == InitCreate(ConfidenceData({None, <<"P", "O", "-", "1">>,
                    <<"P", "O", "-", "2">>}, {None, <<"A", "C", "M", "E">>,
                    <<" ", "A", "c", "m", "e">>}), ConfidenceData({None, <<>>,
                    <<"P", "O", "-", "1">>, <<"p", "o", "-", "1", " ">>},
                    {None, <<>>, <<"A", "C", "M", "E">>, <<"A", "c", "m">>,
                    <<"B", "X">>}), CreateDnData, CreatePoItems, TaxInvItems,
                    CreateDnItems) /\ [][NextCreate]_vars

SpecNorm == InitItems({ Item(<<"0", "1", "3">>, <<"X", "Y", "Z">>, {1000},
              {5000}), Item(<<"A", "0", "0", "1">>, <<"X", "Y", "Z">>, {1000},
              {5000}), Item(<<" ", "1", "2">>, <<"A", "B">>, {1000}, {5000}),
              Item(<<"0", "0">>, None, {1000}, {5000}) }, { Item(<<"1", "3">>,
              <<"X", "Y", "Z">>, {1000}, {5000}), Item(<<"A", "0", "0", "1">>,
              <<"A", "B">>, {1000}, {5000}), Item(<<"1", "2">>, <<"A", "B">>,
              {1000}, {5000}), Item(<<"0">>, None, {1000}, {5000}) },
              MatchDnItems) /\ [][NextItems]_vars

-----------------------------------------------------------------------------
(* FormRecognizerService.analyze_purchase_order: the line items read from   *)
(* the rows of a table.  A row is the list of the texts of its cells in     *)
(* column order.  The cells of the model are written with digits, ".",      *)
(* ",", "$", "x" and blanks, so of the currency symbols the code removes    *)
(* only "$" can occur; exponents, "inf", "nan" and "_" are not modelled.    *)

RECURSIVE Without(_, _)
\* s.replace(c, "") for every character c of chars
Without(s, chars) ==
    IF s = <<>> THEN <<>>
    ELSE (IF Head(s) \in chars THEN <<>> ELSE << Head(s) >>) \o Without(Tail(s), chars)

\* the text of a float literal without its sign
Unsigned(s) == IF s # <<>> /\ Head(s) \in {"+", "-"} THEN Tail(s) ELSE s

\* does float(s) succeed: blanks around, an optional sign, digits with at
\* most one point and at least one digit
ParsesAsFloat(s) ==
    LET body == Unsigned(Strip(s))
    IN /\ Cardinality({i \in 1..Len(body) : body[i] = "."}) <= 1
       /\ \A i \in 1..Len(body) : body[i] = "." \/ IsDigit(body[i])
       /\ \E i \in 1..Len(body) : IsDigit(body[i])

\* float(s), in thousandths: the digits before the point and the first three
\* after it, negated after a minus sign
FloatOf(s) ==
    LET body == Unsigned(Strip(s))
        points == {i \in 1..Len(body) : body[i] = "."}
        d == IF points = {} THEN Len(body) + 1 ELSE Min(points)
        decimals == SubSeq(SubSeq(body, d + 1, Len(body)) \o <<"0", "0", "0">>, 1, 3)
        value == DigitsValue(SubSeq(body, 1, d - 1), 0) * 1000 + DigitsValue(decimals, 0)
    IN IF Strip(s) # <<>> /\ Head(Strip(s)) = "-" THEN 0 - value ELSE value

\* unit_price and line_total: currency symbols and commas removed, the rest
\* stripped, float of it if it is not empty, left None on ValueError
CellAmount(cell) ==
    IF Strip(Without(cell, {"$", ","})) # <<>> /\ ParsesAsFloat(Without(cell, {"$", ","}))
    THEN {FloatOf(Without(cell, {"$", ","}))}
    ELSE Null

\* the line item of a row of at least three cells
RowLineItem(row_cells) ==
    [ item_number |-> Strip(row_cells[1]),
      description |-> Strip(row_cells[2]),
      quantity |-> IF ParsesAsFloat(Strip(row_cells[3]))
                   THEN {FloatOf(Strip(row_cells[3]))} ELSE Null,
      unit_price |-> IF Len(row_cells) > 3 THEN CellAmount(row_cells[4]) ELSE Null,
      line_total |-> IF Len(row_cells) > 4 THEN CellAmount(row_cells[5]) ELSE Null ]

RECURSIVE TableLineItems(_)
\* the loop over the rows: "if len(row_cells) >= 3"
TableLineItems(rows) ==
    IF rows = <<>> THEN <<>>
    ELSE (IF Len(Head(rows)) >= 3 THEN << RowLineItem(Head(rows)) >> ELSE <<>>)
            \o TableLineItems(Tail(rows))

\* the line items of the purchase order become those the engine compares
AnalyzePurchaseOrder ==
    /\ pc = "analyze"
    /\ po_items' = TableLineItems(po_table)
    /\ pc' = "match_items"
    /\ UNCHANGED <<wsVars, storeVars, dataVars, invoice_items, dn_items, matched_items, cmp_index, discrepancies>>

NextTable ==
    \/ AnalyzePurchaseOrder
    \/ StartCompare
    \/ CompareMatchedItem
    \/ FindMissingItems
    \/ FindExtraItems
    \/ CompareDeliveryNote

InitTable ==
    /\ pc = "analyze"
    /\ po_table \in SeqsUpTo({ << <<"7">>, <<"A", "B">>,
                              q >> : q \in { <<"2">>, <<" ", "1", ".", "5">>,
                              <<"x">>, <<"2", "x">> } } \cup { << <<"7">>,
                              <<"A", "B">>, <<"2">>, p >> : p \in { <<"$",
                              "5">>, <<"x">>, <<>> } } \cup { << <<"7">>,
                              <<"A", "B">>, <<"2">>, <<"$", "5">>,
                              t >> : t \in { <<"1", ",", "0", "0", "0">>,
                              <<"1", "x">> } }, MaxPoItems)
    /\ invoice_items \in SeqsUpTo({ Item(<<"7">>, <<"A", "B">>, {2000}, {5000}),
                              Item(<<"7">>, <<"A", "B">>, {3000}, {6000}),
                              Item(<<"8">>, <<"x", "y", "z">>, Null, Null) }, MaxInvItems)
    /\ dn_items = <<>>
    /\ po_items = <<>>
    /\ pos = <<>>
    /\ invoices = <<>>
    /\ delivery_notes = <<>>
    /\ matching_results = <<>>
    /\ db_results = <<>>
    /\ matched_items = <<>>
    /\ cmp_index = 0
    /\ discrepancies = <<>>
    /\ po_extracted = NoData
    /\ invoice_extracted = NoData
    /\ dn_extracted = NoData
    /\ result = NoResult
    /\ documents = <<>>
    /\ extracted_data = <<>>
    /\ extracted_data_dict = NoDict
    /\ returned = <<>>

SpecTable == InitTable /\ [][NextTable]_vars

-----------------------------------------------------------------------------
(* The documents table, the query of match_documents_in_workspace and       *)
(* repeated calls.  A row of the documents table holds the columns the     *)
(* query reads, and the id of a document is its position in the table; a   *)
(* row of the extracted_data table holds the id of its document.            *)

MaxDocuments == 3
MaxRuns == 2

\* the workspace_id the calls are given, and another workspace
WorkspaceId == "w1"
OtherWorkspaceId == "w2"

Document(document_type, workspace_id, status) ==
    [ document_type |-> document_type, workspace_id |-> workspace_id,
      status |-> status ]

ExtractedDataRow(document_id, data) == [document_id |-> document_id, data |-> data]

Selected_AnyWorkspace(d, workspace_id) == d.status = "PROCESSED"

\* Document.workspace_id == workspace_id, Document.status == "PROCESSED"
\* (the column stores the names of the DocumentStatus members)
Selected(d, workspace_id) ==
    d.workspace_id = workspace_id /\ d.status = "PROCESSED"

RECURSIVE IdsFrom(_, _, _)
IdsFrom(k, document_type, workspace_id) ==
    IF k > Len(documents) THEN <<>>
    ELSE (IF /\ Selected(documents[k], workspace_id)
             /\ documents[k].document_type = document_type
          THEN <<k>> ELSE <<>>) \o IdsFrom(k + 1, document_type, workspace_id)

\* ids of the documents of one type the query returns, in table order
DocumentIds(document_type, workspace_id) == IdsFrom(1, document_type, workspace_id)

\* _get_extracted_data: the first row of the document, NoData for None
GetExtractedData(document_id) ==
    LET R == {k \in 1..Len(extracted_data) : extracted_data[k].document_id = document_id}
    IN IF R = {} THEN NoData ELSE extracted_data[Min(R)].data

\* _get_extracted_data for each document of a list
ExtractedDataOf(ids) == [k \in 1..Len(ids) |-> GetExtractedData(ids[k])]

\* a call of match_documents_in_workspace up to the split by type
QueryDocuments ==
    /\ pc \in {"idle", "returned"}
    /\ Len(returned) < MaxRuns
    /\ pos' = ExtractedDataOf(DocumentIds("PURCHASE_ORDER", WorkspaceId))
    /\ invoices' = ExtractedDataOf(DocumentIds("INVOICE", WorkspaceId))
    /\ delivery_notes' = ExtractedDataOf(DocumentIds("DELIVERY_NOTE", WorkspaceId))
    /\ matching_results' = <<>>
    /\ pc' = "first_pass"
    /\ UNCHANGED <<db_results, itemVars, dataVars, storeVars>>

NextStore == QueryDocuments \/ FirstPass \/ SecondPass \/ SaveResults

StorePoData ==
    WithLineItems(FullHeader, << Item(<<"7">>, <<"A", "B">>, {2000}, {5000}) >>)

StoreInvoiceData ==
    WithLineItems([FullHeader EXCEPT !.po_number = <<"p", "o", "-", "1", " ">>,
                                     !.currency_code = <<"E", "U", "R">>],
                  << Item(<<"7">>, <<"A", "B">>, {3000}, {5000}) >>)

RECURSIVE ExtractedDataRowsFrom(_, _)
\* the extracted_data table of a list of documents with their data
ExtractedDataRowsFrom(docs, k) ==
    IF k > Len(docs) THEN <<>>
    ELSE (IF docs[k][2].extracted THEN << ExtractedDataRow(k, docs[k][2]) >> ELSE <<>>)
            \o ExtractedDataRowsFrom(docs, k + 1)

InitStore ==
    /\ pc = "idle"
    /\ \E docs \in SeqsUpTo({ << Document("PURCHASE_ORDER", WorkspaceId,
                              "PROCESSED"), StorePoData >>,
                              << Document("PURCHASE_ORDER", WorkspaceId,
                              "PROCESSED"), NoData >>,
                              << Document("PURCHASE_ORDER", WorkspaceId,
                              "FAILED"), NoData >>,
                              << Document("PURCHASE_ORDER", OtherWorkspaceId,
                              "PROCESSED"), StorePoData >>,
                              << Document("INVOICE", WorkspaceId,
                              "PROCESSED"), StoreInvoiceData >>,
                              << Document("INVOICE", WorkspaceId,
                              "PROCESSED"), Data(None, <<"A", "c", "m",
                              "e">>) >>, << Document("INVOICE", WorkspaceId,
                              "PROCESSING"), NoData >>, << Document("INVOICE",
                              OtherWorkspaceId, "PROCESSED"),
                              StoreInvoiceData >>,
                              << Document("DELIVERY_NOTE", WorkspaceId,
                              "PROCESSED"), Data(<<"P", "O", "-", "1">>,
                              None) >>, << Document("DELIVERY_NOTE",
                              OtherWorkspaceId, "PROCESSED"), Data(<<"P", "O",
                              "-", "1">>, None) >> }, MaxDocuments) :
          /\ documents = [k \in 1..Len(docs) |-> docs[k][1]]
          /\ extracted_data = ExtractedDataRowsFrom(docs, 1)
    /\ extracted_data_dict = NoDict
    /\ returned = <<>>
    /\ po_table = <<>>
    /\ pos = <<>>
    /\ invoices = <<>>
    /\ delivery_notes = <<>>
    /\ matching_results = <<>>
    /\ db_results = <<>>
    /\ po_items = <<>>
    /\ invoice_items = <<>>
    /\ dn_items = <<>>
    /\ matched_items = <<>>
    /\ cmp_index = 0
    /\ discrepancies = <<>>
    /\ po_extracted = NoData
    /\ invoice_extracted = NoData
    /\ dn_extracted = NoData
    /\ result = NoResult

SpecStore == InitStore /\ [][NextStore]_vars

-----------------------------------------------------------------------------
(* DocumentProcessor.process_document, from the creation of the document    *)
(* record on: one step for each commit and one for the call of              *)
(* extract_document.  The document of the call is the last of the table.    *)
(* The database itself failing at a flush or a commit is not modelled.      *)

\* the document, with another status
WithStatus(docs, document_id, status) ==
    [docs EXCEPT ![document_id] = [@ EXCEPT !.status = status]]

\* ExtractedData(document_id=..., po_number=..., ..., line_items=...)
NewExtractedData(dict) ==
    WithLineItems(ExtractedData(dict.po_number, dict.vendor_name, None, Null, Null,
                                Null, dict.total_amount),
                  dict.line_items)

\* Document(... status=UPLOADED ...), db.add, db.flush
CreateDocument ==
    /\ pc \in {"idle", "process_returned", "process_raised"}
    /\ Len(documents) < MaxDocuments
    /\ \E document_type \in {"PURCHASE_ORDER", "INVOICE", "DELIVERY_NOTE"}, workspace_id \in {WorkspaceId, OtherWorkspaceId} :
          documents' = Append(documents, Document(document_type, workspace_id, "UPLOADED"))
    /\ extracted_data_dict' = NoDict
    /\ pc' = "uploaded"
    /\ UNCHANGED <<wsVars, itemVars, dataVars, extracted_data, returned, po_table>>

\* document.status = PROCESSING, db.commit
StartProcessing ==
    /\ pc = "uploaded"
    /\ documents' = WithStatus(documents, Len(documents), "PROCESSING")
    /\ pc' = "processing"
    /\ UNCHANGED <<wsVars, itemVars, dataVars, extracted_data, extracted_data_dict, returned, po_table>>

\* form_recognizer_service.extract_document returns a dict or raises
ExtractDocument ==
    /\ pc = "processing"
    /\ \/ /\ \E dict \in { [ po_number |-> <<"P", "O", "-", "1">>,
                           vendor_name |-> <<"A", "C", "M", "E">>,
                           currency_code |-> <<"U", "S", "D">>,
                           total_amount |-> {108000},
                           line_items |-> << Item(<<"7">>, <<"A", "B">>,
                           {2000}, {5000}) >> ], [ po_number |-> None,
                           vendor_name |-> None, currency_code |-> None,
                           total_amount |-> Null, line_items |-> <<>> ] } :
                extracted_data_dict' = [returned |-> TRUE, raised |-> FALSE, dict |-> dict]
          /\ pc' = "extracted"
       \/ /\ extracted_data_dict' = [returned |-> FALSE, raised |-> TRUE]
          /\ pc' = "extraction_raised"
    /\ UNCHANGED <<wsVars, itemVars, dataVars, documents, extracted_data, returned, po_table>>

StoreExtractedData_KeepsStatus ==
    /\ pc = "extracted"
    /\ extracted_data' = Append(extracted_data,
                                ExtractedDataRow(Len(documents), NewExtractedData(extracted_data_dict.dict)))
    /\ pc' = "process_returned"
    /\ UNCHANGED <<wsVars, itemVars, dataVars, documents, extracted_data_dict, returned, po_table>>

\* db.add(extracted_data), document.status = PROCESSED, db.commit, return
StoreExtractedData ==
    /\ pc = "extracted"
    /\ extracted_data' = Append(extracted_data,
                                ExtractedDataRow(Len(documents), NewExtractedData(extracted_data_dict.dict)))
    /\ documents' = WithStatus(documents, Len(documents), "PROCESSED")
    /\ pc' = "process_returned"
    /\ UNCHANGED <<wsVars, itemVars, dataVars, extracted_data_dict, returned, po_table>>

\* except Exception: document.status = FAILED, db.commit, raise
FailDocument ==
    /\ pc = "extraction_raised"
    /\ documents' = WithStatus(documents, Len(documents), "FAILED")
    /\ pc' = "process_raised"
    /\ UNCHANGED <<wsVars, itemVars, dataVars, extracted_data, extracted_data_dict, returned, po_table>>

NextProcess ==
    \/ CreateDocument
    \/ StartProcessing
    \/ ExtractDocument
    \/ StoreExtractedData
    \/ FailDocument

InitProcess ==
    /\ pc = "idle"
    /\ documents = <<>>
    /\ extracted_data = <<>>
    /\ extracted_data_dict = NoDict
    /\ returned = <<>>
    /\ po_table = <<>>
    /\ pos = <<>>
    /\ invoices = <<>>
    /\ delivery_notes = <<>>
    /\ matching_results = <<>>
    /\ db_results = <<>>
    /\ po_items = <<>>
    /\ invoice_items = <<>>
    /\ dn_items = <<>>
    /\ matched_items = <<>>
    /\ cmp_index = 0
    /\ discrepancies = <<>>
    /\ po_extracted = NoData
    /\ invoice_extracted = NoData
    /\ dn_extracted = NoData
    /\ result = NoResult

SpecProcess == InitProcess /\ [][NextProcess]_vars

-----------------------------------------------------------------------------
(* Properties of the document pairer *)

\* the PO and the candidate both have a po_number and the numbers are equal
\* up to case and surrounding blanks
SamePoNumber(a, b) ==
    /\ a.extracted /\ b.extracted
    /\ Truthy(a.po_number) /\ Truthy(b.po_number)
    /\ Upper(Strip(a.po_number)) = Upper(Strip(b.po_number))

\* the two documents both have a vendor name and the names have
\* similarity >= 85
SimilarVendor(a, b) ==
    /\ a.extracted /\ b.extracted
    /\ Truthy(a.vendor_name) /\ Truthy(b.vendor_name)
    /\ FuzzRatio(Upper(Strip(a.vendor_name)), Upper(Strip(b.vendor_name))) >= 85000

ResultsOfPO(results, p) ==
    {k \in 1..Len(results) : results[k].po_document_id = p}

ResultsOfInvoice(results, i) ==
    {k \in 1..Len(results) : results[k].invoice_document_id = i}

\* C1: after the first pass, a PO for which some invoice has an equal
\* po_number is paired with the first such invoice, even when an earlier
\* invoice matches it by vendor name only; the same holds for the delivery
\* note attached to the PO.
C1_PoNumberPrecedence ==
    pc = "second_pass" =>
        \A p \in 1..Len(pos) :
            LET E == {i \in 1..Len(invoices) : SamePoNumber(pos[p], invoices[i])}
                D == {d \in 1..Len(delivery_notes) :
                         SamePoNumber(pos[p], delivery_notes[d])}
            IN /\ E # {} =>
                     /\ ResultsOfPO(matching_results, p) # {}
                     /\ \A k \in ResultsOfPO(matching_results, p) :
                            matching_results[k].invoice_document_id = Min(E)
               /\ D # {} =>
                     \A k \in ResultsOfPO(matching_results, p) :
                         matching_results[k].delivery_note_document_id = Min(D)

\* C4: the second pass keeps the first-pass results and adds, for every
\* invoice that is in no first-pass grouping and whose vendor name is similar
\* (>= 85) to that of some PO with extracted data, exactly one result pairing
\* it with the first such PO, with the delivery note the first pass attached
\* to that PO; an invoice already in a grouping adds nothing.
C4_SecondChance ==
    [][ pc = "second_pass" =>
          LET old == matching_results
              new == SubSeq(matching_results', Len(old) + 1, Len(matching_results'))
          IN /\ SubSeq(matching_results', 1, Len(old)) = old
             /\ \A j \in 1..Len(invoices) :
                   LET R == ResultsOfInvoice(new, j)
                       V == {p \in 1..Len(pos) : SimilarVendor(invoices[j], pos[p])}
                   IN IF ResultsOfInvoice(old, j) = {} /\ V # {}
                      THEN /\ Cardinality(R) = 1
                           /\ \A k \in R :
                                /\ new[k].po_document_id = Min(V)
                                /\ \A f \in ResultsOfPO(old, Min(V)) :
                                      new[k].delivery_note_document_id =
                                          old[f].delivery_note_document_id
                      ELSE R = {}
      ]_vars

\* a PO is in two groupings, the later one made by the second pass for
\* another invoice, and a delivery note is attached to it
C4_Witness ==
    /\ pc = "save"
    /\ \E k1, k2 \in 1..Len(matching_results) :
          /\ k1 < k2
          /\ matching_results[k1].po_document_id = matching_results[k2].po_document_id
          /\ matching_results[k1].invoice_document_id
                 # matching_results[k2].invoice_document_id
          /\ matching_results[k2].delivery_note_document_id # 0
    /\ \E p \in 1..Len(pos) : ResultsOfPO(matching_results, p) = {} /\ pos[p].extracted

\* C5: matched_by is "po_number" exactly for the groupings made through the
\* PO-number check of the first pass, and "vendor_name" for the groupings
\* made through a vendor-name check; every grouping the second pass adds has
\* matched_by = "vendor_name".
C5_MatchedByIsThePath ==
    [][ /\ pc = "first_pass" =>
              \A k \in 1..Len(matching_results') :
                  LET r == matching_results'[k]
                  IN r.matched_by = "po_number" <=>
                         SamePoNumber(pos[r.po_document_id],
                                      invoices[r.invoice_document_id])
        /\ pc = "second_pass" =>
              \A k \in (Len(matching_results) + 1)..Len(matching_results') :
                  matching_results'[k].matched_by = "vendor_name"
      ]_vars

\* an invoice matches a PO by PO number or by vendor name
InvoiceMatchesPO(p, i) ==
    SamePoNumber(pos[p], invoices[i]) \/ SimilarVendor(pos[p], invoices[i])

\* C6: every MatchingResult, built or stored, names a PO and an invoice, and
\* a PO that no invoice matches (by PO number or by vendor name) is in no
\* MatchingResult, also when a delivery note matches it.
C6_GroupingNeedsInvoice ==
    \A results \in {matching_results, db_results} :
        /\ \A k \in 1..Len(results) :
              /\ results[k].po_document_id \in 1..Len(pos)
              /\ results[k].invoice_document_id \in 1..Len(invoices)
        /\ \A p \in 1..Len(pos) :
              (\A i \in 1..Len(invoices) : ~InvoiceMatchesPO(p, i))
                  => ResultsOfPO(results, p) = {}

\* the run has ended with a grouping, and another PO that has extracted data
\* and a matching delivery note, but no matching invoice, is in none
C6_Witness ==
    /\ pc = "returned"
    /\ db_results # <<>>
    /\ \E p \in 1..Len(pos) :
          /\ pos[p].extracted
          /\ FindMatchingDeliveryNote(pos[p], delivery_notes) # 0
          /\ \E i \in 1..Len(invoices) : invoices[i].extracted
          /\ \A i \in 1..Len(invoices) : ~InvoiceMatchesPO(p, i)
          /\ ResultsOfPO(db_results, p) = {}

-----------------------------------------------------------------------------
(* Properties of the line-item matcher and of the line-item comparison *)

\* the normalized item number of a line: the trimmed number, in decimal form
\* without leading zeros when it is an integer
NormalizedNumber(item) == NormalizeItemNumber(ItemNum(item))

\* the similarity of the descriptions of two lines, 0 when one is empty
DescriptionSimilarity(item1, item2) ==
    IF Desc(item1) = <<>> \/ Desc(item2) = <<>> THEN 0
    ELSE FuzzRatio(Upper(Desc(item1)), Upper(Desc(item2)))

IndicesOfType(discs, type) == {k \in 1..Len(discs) : discs[k].type = type}

\* the discrepancies the step being taken appends
Appended == SubSeq(discrepancies', Len(discrepancies) + 1, Len(discrepancies'))

\* C2: a PO line and an invoice line with equal, non-empty normalized item
\* numbers that no other line on either side carries are paired with each
\* other at score 100, whatever lines precede them.
C2_ExactMatchPriority ==
    pc # "match_items" =>
        \A i \in 1..Len(po_items) : \A j \in 1..Len(invoice_items) :
            ( /\ NormalizedNumber(po_items[i]) # <<>>
              /\ NormalizedNumber(po_items[i]) = NormalizedNumber(invoice_items[j])
              /\ \A i2 \in 1..Len(po_items) :
                    i2 # i => NormalizedNumber(po_items[i2]) # NormalizedNumber(po_items[i])
              /\ \A j2 \in 1..Len(invoice_items) :
                    j2 # j => NormalizedNumber(invoice_items[j2])
                                 # NormalizedNumber(invoice_items[j]) )
            => \E k \in 1..Len(matched_items) :
                  /\ matched_items[k].po_index = i
                  /\ matched_items[k].invoice_index = j
                  /\ matched_items[k].score = 100 * 1000

\* C3: the comparison of a pair made through equal normalized item numbers
\* appends exactly one description_mismatch, of severity low, when the
\* similarity of the two descriptions is below 80, and none when it is 80 or
\* more.
C3_DescriptionMismatch ==
    [][ pc = "matched_item" =>
          LET m == matched_items[cmp_index]
              D == IndicesOfType(Appended, "description_mismatch")
          IN ( /\ NormalizedNumber(m.po_item) # <<>>
               /\ NormalizedNumber(m.po_item) = NormalizedNumber(m.invoice_item) )
             => /\ Cardinality(D) =
                      IF DescriptionSimilarity(m.po_item, m.invoice_item) < 80000
                      THEN 1 ELSE 0
                /\ \A k \in D : Appended[k].severity = "low"
      ]_vars

\* C7: _match_items leaves its two lists as they are and returns pairs of
\* valid indices, in increasing order of the left index, in which no left
\* index and no right index occurs twice; each pair holds the two lines at
\* its indices.
C7_OneToOneMatching ==
    [][ pc = "match_items" =>
          LET m == matched_items'
          IN /\ po_items' = po_items
             /\ invoice_items' = invoice_items
             /\ \A k \in 1..Len(m) :
                   /\ m[k].po_index \in 1..Len(po_items)
                   /\ m[k].invoice_index \in 1..Len(invoice_items)
                   /\ m[k].po_item = po_items[m[k].po_index]
                   /\ m[k].invoice_item = invoice_items[m[k].invoice_index]
             /\ \A k1, k2 \in 1..Len(m) :
                   k1 < k2 => /\ m[k1].po_index < m[k2].po_index
                              /\ m[k1].invoice_index # m[k2].invoice_index
      ]_vars

\* two PO lines carry the item number of the same invoice line, and both
\* are paired
C7_Witness ==
    /\ pc = "matched_item"
    /\ Len(matched_items) = 2
    /\ \E j \in 1..Len(invoice_items) :
          /\ ItemNumbersMatch(po_items[1], invoice_items[j])
          /\ ItemNumbersMatch(po_items[2], invoice_items[j])

UnpairedPoLines == (1..Len(po_items)) \ {matched_items[k].po_index : k \in 1..Len(matched_items)}

UnpairedInvoiceLines ==
    (1..Len(invoice_items)) \ {matched_items[k].invoice_index : k \in 1..Len(matched_items)}

\* C8: once the missing and the extra items are found, the list holds one
\* missing_item (high) for each unpaired PO line and one extra_item (medium)
\* for each unpaired invoice line, and none for a paired line: their numbers
\* are the numbers of lines minus the number of pairs.
C8_MissingAndExtraItems ==
    pc \in {"delivery_note", "compared"} =>
        LET missing == IndicesOfType(discrepancies, "missing_item")
            extra == IndicesOfType(discrepancies, "extra_item")
        IN /\ \A k \in missing :
                 /\ discrepancies[k].severity = "high"
                 /\ discrepancies[k].invoice_value = NoneValue
           /\ \A k \in extra :
                 /\ discrepancies[k].severity = "medium"
                 /\ discrepancies[k].po_value = NoneValue
           /\ \A v \in MatchPoItems \cup QtyPoItems \cup PricePoItems :
                 Cardinality({k \in missing : discrepancies[k].po_value = v})
                     = Cardinality({i \in UnpairedPoLines : po_items[i] = v})
           /\ \A v \in MatchInvItems \cup QtyInvItems \cup PriceInvItems :
                 Cardinality({k \in extra : discrepancies[k].invoice_value = v})
                     = Cardinality({i \in UnpairedInvoiceLines : invoice_items[i] = v})
           /\ Cardinality(missing) = Len(po_items) - Len(matched_items)
           /\ Cardinality(extra) = Len(invoice_items) - Len(matched_items)

\* a comparison with a pair, an unpaired PO line and an unpaired invoice line
C8_Witness ==
    /\ pc = "compared"
    /\ Len(matched_items) = 1
    /\ Len(po_items) = 2
    /\ Len(invoice_items) = 2
    /\ IndicesOfType(discrepancies, "missing_item") # {}
    /\ IndicesOfType(discrepancies, "extra_item") # {}

\* the severity of a difference d on a base b with the limits of a
\* quantity_mismatch: p = 100 * d / b
QuantitySeverityOf(d, b) ==
    IF b = 0 THEN "medium"
    ELSE IF (b > 0 /\ 100 * d >= 50 * b) \/ (b < 0 /\ 100 * d <= 50 * b) THEN "critical"
    ELSE IF (b > 0 /\ 100 * d >= 20 * b) \/ (b < 0 /\ 100 * d <= 20 * b) THEN "high"
    ELSE IF (b > 0 /\ 100 * d >= 10 * b) \/ (b < 0 /\ 100 * d <= 10 * b) THEN "medium"
    ELSE "low"

\* the same with the limits of a price_change
PriceSeverityOf(d, b) ==
    IF (b > 0 /\ 100 * d >= 20 * b) \/ (b < 0 /\ 100 * d <= 20 * b) THEN "critical"
    ELSE IF (b > 0 /\ 100 * d >= 10 * b) \/ (b < 0 /\ 100 * d <= 10 * b) THEN "high"
    ELSE IF (b > 0 /\ 100 * d >= 5 * b) \/ (b < 0 /\ 100 * d <= 5 * b) THEN "medium"
    ELSE "low"

-----------------------------------------------------------------------------
(* Absent quantities *)

\* C11: a pair in which the quantity is absent on either side gets no
\* quantity_mismatch, neither from the PO/invoice comparison nor from the
\* PO/delivery-note comparison.
C11_AbsentQuantitySkipped ==
    [][ /\ pc = "matched_item" =>
              LET m == matched_items[cmp_index]
              IN (m.po_item.quantity = Null \/ m.invoice_item.quantity = Null)
                    => IndicesOfType(Appended, "quantity_mismatch") = {}
        /\ pc = "delivery_note" =>
              LET dn_matched == MatchItems(po_items, dn_items, "DN")
              IN (\A k \in 1..Len(dn_matched) :
                      \/ dn_matched[k].po_item.quantity = Null
                      \/ dn_matched[k].dn_item.quantity = Null)
                    => discrepancies' = discrepancies
      ]_vars

-----------------------------------------------------------------------------
(* Properties of the header checks of _create_matching_result *)

\* the number of discrepancies of a type in a list
CountOfType(discs, type) == Cardinality(IndicesOfType(discs, type))

\* the two codes are both present and differ when letter case is ignored
CurrenciesDiffer(po, inv) ==
    /\ po.currency_code # None
    /\ inv.currency_code # None
    /\ Upper(po.currency_code) # Upper(inv.currency_code)

\* C12: a MatchingResult has exactly one currency_mismatch, of severity
\* high, if and only if both documents have a currency_code and the codes
\* differ when compared case-insensitively; otherwise it has none.
C12_CurrencyMismatch ==
    pc = "created" =>
        LET discs == result.discrepancies
            found == IndicesOfType(discs, "currency_mismatch")
        IN IF CurrenciesDiffer(po_extracted, invoice_extracted)
           THEN /\ Cardinality(found) = 1
                /\ \A k \in found : discs[k].severity = "high"
           ELSE found = {}

C12_Witness ==
    /\ pc = "created"
    /\ po_extracted.currency_code = <<"U", "S", "D">>
    /\ invoice_extracted.currency_code = <<"E", "U", "R">>
    /\ CountOfType(result.discrepancies, "currency_mismatch") = 1
    /\ CountOfType(result.discrepancies, "quantity_mismatch") = 2

\* |po.tax_rate - inv.tax_rate| in thousandths of a percentage point, for
\* two rates that are present
TaxRateDifference(po, inv) ==
    Abs(NumberOf(po.tax_rate) - NumberOf(inv.tax_rate))

\* C13: a MatchingResult has exactly one tax_rate_mismatch if and only if
\* both tax rates are present (0 is a rate) and differ by more than 0.1
\* percentage points; it is critical when the difference is greater than
\* 5.0 and high otherwise.
C13_TaxRateMismatch ==
    pc = "created" =>
        LET discs == result.discrepancies
            found == IndicesOfType(discs, "tax_rate_mismatch")
        IN IF /\ po_extracted.tax_rate # Null
              /\ invoice_extracted.tax_rate # Null
              /\ TaxRateDifference(po_extracted, invoice_extracted) > 100
           THEN /\ Cardinality(found) = 1
                /\ \A k \in found :
                      discs[k].severity =
                         IF TaxRateDifference(po_extracted, invoice_extracted) > 5000
                         THEN "critical" ELSE "high"
           ELSE found = {}

C13_Witness ==
    /\ pc = "created"
    /\ po_extracted.tax_rate = {8000}
    /\ invoice_extracted.tax_rate = {10000}
    /\ \E k \in 1..Len(result.discrepancies) :
          /\ result.discrepancies[k].type = "tax_rate_mismatch"
          /\ result.discrepancies[k].severity = "high"

\* |po_tax - inv_tax| in thousandths, for two tax amounts that are present
TaxAmountDifference(po, inv) ==
    Abs(NumberOf(po.tax_amount) - NumberOf(inv.tax_amount))

\* 100 * max(1.0, 0.01 * min(po_tax, inv_tax)), in thousandths
StatedTolerance100(po, inv) ==
    LET po_tax == NumberOf(po.tax_amount)
        inv_tax == NumberOf(inv.tax_amount)
        least == IF po_tax <= inv_tax THEN po_tax ELSE inv_tax
    IN IF least >= 100 * 1000 THEN least ELSE 100 * 1000

\* the tax amounts are both present and differ by more than the tolerance
TaxAmountsDiffer(po, inv) ==
    /\ po.tax_amount # Null
    /\ inv.tax_amount # Null
    /\ 100 * TaxAmountDifference(po, inv) > StatedTolerance100(po, inv)

\* subtotal and tax_rate of the document are present (0 included) and its own
\* tax_amount deviates from subtotal * tax_rate / 100 by more than tolerance
OwnTaxDeviates(data, tolerance100) ==
    /\ data.subtotal # Null
    /\ data.tax_rate # Null
    /\ DeviatesBeyond(NumberOf(data.tax_amount),
                      NumberOf(data.subtotal) * NumberOf(data.tax_rate),
                      tolerance100)

\* C14: when the tax amounts are both present and differ by more than the
\* tolerance, no tax_amount_mismatch is emitted if the own tax of either
\* document deviates from subtotal * tax_rate / 100 by more than the
\* tolerance (a tax_rate or subtotal of 0 is present), and exactly one is
\* emitted otherwise.
C14_CalculationErrorSuppression ==
    (pc = "created" /\ TaxAmountsDiffer(po_extracted, invoice_extracted)) =>
        LET tolerance100 == StatedTolerance100(po_extracted, invoice_extracted)
            count == CountOfType(result.discrepancies, "tax_amount_mismatch")
        IN IF \/ OwnTaxDeviates(po_extracted, tolerance100)
              \/ OwnTaxDeviates(invoice_extracted, tolerance100)
           THEN count = 0
           ELSE count = 1

\* C15: a tax_amount_mismatch is emitted only when both tax amounts are
\* present and differ by more than max(1.0, 0.01 * min(po_tax, inv_tax));
\* an emitted one is critical when the difference is greater than 100, high
\* when it is greater than 10 and at most 100, and medium otherwise.
C15_TaxAmountToleranceAndSeverity ==
    pc = "created" =>
        LET discs == result.discrepancies
            found == IndicesOfType(discs, "tax_amount_mismatch")
        IN /\ ~TaxAmountsDiffer(po_extracted, invoice_extracted) => found = {}
           /\ \A k \in found :
                 LET diff == TaxAmountDifference(po_extracted, invoice_extracted)
                 IN discs[k].severity =
                       IF diff > 100 * 1000 THEN "critical"
                       ELSE IF diff > 10 * 1000 THEN "high" ELSE "medium"

C15_Witness ==
    /\ pc = "created"
    /\ po_extracted.tax_amount = {200000}
    /\ invoice_extracted.tax_amount = {202500}
    /\ \E k \in 1..Len(result.discrepancies) :
          /\ result.discrepancies[k].type = "tax_amount_mismatch"
          /\ result.discrepancies[k].severity = "medium"

\* the sum of line_total over all line items, 0 for no items
RECURSIVE SumOfLineTotals(_)
SumOfLineTotals(items) ==
    IF items = <<>> THEN 0
    ELSE LET item == Head(items)
             line_total == IF "line_total" \in DOMAIN item /\ item.line_total # Null
                           THEN NumberOf(item.line_total) ELSE 0
         IN line_total + SumOfLineTotals(Tail(items))

\* the document total by the stated fallback order
StatedTotal(data, items) ==
    IF data.total_amount # Null THEN NumberOf(data.total_amount)
    ELSE IF data.subtotal # Null /\ data.tax_amount # Null
    THEN NumberOf(data.subtotal) + NumberOf(data.tax_amount)
    ELSE SumOfLineTotals(items)

\* C16: the document total is total_amount when it is present (0 included),
\* otherwise subtotal + tax_amount when both are present (0 included),
\* otherwise the sum of line_total over the line items; total_difference is
\* the absolute difference of the invoice total and the PO total, never
\* negative.
C16_DocumentTotal ==
    pc = "created" =>
        LET po_total == StatedTotal(po_extracted, po_items)
            invoice_total == StatedTotal(invoice_extracted, invoice_items)
        IN /\ result.total_po_amount = FloatToStr(po_total)
           /\ result.total_invoice_amount = FloatToStr(invoice_total)
           /\ result.total_difference = FloatToStr(Abs(invoice_total - po_total))
           /\ Head(result.total_difference) # "-"

-----------------------------------------------------------------------------
(* Delivery-note quantities *)

\* how many discrepancies the PO/invoice comparison produced for the first
\* n matched pairs
RECURSIVE DiscrepanciesBefore(_)
DiscrepanciesBefore(n) ==
    IF n = 0 THEN 0
    ELSE DiscrepanciesBefore(n - 1)
            + Len(MatchedItemDiscrepancies(matched_items[n]))

\* the position in the list of the quantity_mismatch that the PO/invoice
\* comparison produced for PO line i, 0 if it produced none
QuantityMismatchOfLine(i) ==
    LET K == {k \in 1..Len(matched_items) : matched_items[k].po_index = i}
    IN IF K = {} THEN 0
       ELSE LET k == CHOOSE k \in K : TRUE
            IN IF QuantityMismatch(matched_items[k]) = <<>> THEN 0
               ELSE DiscrepanciesBefore(k - 1) + 1

\* the PO/DN pairs whose quantities are both present and differ by more
\* than 0.01
DifferingDnPairs(dn_matched) ==
    {k \in 1..Len(dn_matched) :
        /\ dn_matched[k].po_item.quantity # Null
        /\ dn_matched[k].dn_item.quantity # Null
        /\ Abs(NumberOf(dn_matched[k].po_item.quantity)
                 - NumberOf(dn_matched[k].dn_item.quantity)) > 10}

\* C17: for every PO line paired with a DN line whose quantities differ by
\* more than 0.01, the DN quantity is written into the quantity_mismatch the
\* PO/invoice comparison produced for that same PO line, or, if there is
\* none, one new quantity_mismatch with a null invoice_value is appended;
\* the discrepancies of other lines are left as they were.  (Lines with an
\* absent quantity are the subject of C11 and are left out here.)
C17_DeliveryQuantityOnSameLine ==
    [][ ( /\ pc = "delivery_note"
          /\ dn_items # <<>>
          /\ \A i \in 1..Len(po_items) : po_items[i].quantity # Null
          /\ \A j \in 1..Len(dn_items) : dn_items[j].quantity # Null ) =>
          LET dn_matched == MatchItems(po_items, dn_items, "DN")
              D == DifferingDnPairs(dn_matched)
              Merged == {k \in D : QuantityMismatchOfLine(dn_matched[k].po_index) # 0}
              Touched == {QuantityMismatchOfLine(dn_matched[k].po_index) : k \in Merged}
          IN /\ \A k \in Merged :
                   LET e == QuantityMismatchOfLine(dn_matched[k].po_index)
                   IN /\ discrepancies'[e].delivery_value =
                            [quantity |-> NumberOf(dn_matched[k].dn_item.quantity)]
                      /\ Len(discrepancies'[e].message) > Len(discrepancies[e].message)
             /\ \A k \in D \ Merged :
                   \E n \in Len(discrepancies) + 1 .. Len(discrepancies') :
                      /\ discrepancies'[n].type = "quantity_mismatch"
                      /\ discrepancies'[n].invoice_value = NoneValue
                      /\ discrepancies'[n].po_value =
                            [quantity |-> NumberOf(dn_matched[k].po_item.quantity)]
                      /\ discrepancies'[n].delivery_value =
                            [quantity |-> NumberOf(dn_matched[k].dn_item.quantity)]
             /\ Len(discrepancies') >= Len(discrepancies)
             /\ Cardinality(IndicesOfType(Appended, "quantity_mismatch"))
                   = Cardinality(D \ Merged)
             /\ \A e \in 1..Len(discrepancies) :
                   e \notin Touched => discrepancies'[e] = discrepancies[e]
      ]_vars

-----------------------------------------------------------------------------
(* Identical documents *)

\* C18: a PO and an invoice with identical line-item lists and identical
\* currency_code, tax_rate, tax_amount, subtotal and total_amount, and no
\* delivery note, give a MatchingResult with an empty discrepancy list.
C18_IdenticalDocuments ==
    ( /\ pc = "created"
      /\ po_items = invoice_items
      /\ po_extracted.currency_code = invoice_extracted.currency_code
      /\ po_extracted.tax_rate = invoice_extracted.tax_rate
      /\ po_extracted.tax_amount = invoice_extracted.tax_amount
      /\ po_extracted.subtotal = invoice_extracted.subtotal
      /\ po_extracted.total_amount = invoice_extracted.total_amount
      /\ ~dn_extracted.extracted )
        => result.discrepancies = <<>>

-----------------------------------------------------------------------------
(* match_confidence *)

\* the fuzzy score of two vendor names, 0 when either is absent
VendorScore(a, b) ==
    IF Truthy(a.vendor_name) /\ Truthy(b.vendor_name)
    THEN FuzzRatio(Upper(Strip(a.vendor_name)), Upper(Strip(b.vendor_name)))
    ELSE 0

-----------------------------------------------------------------------------
(* Item-number normalization *)

\* a string of digits without its leading zeros, one digit at least
RECURSIVE DropLeadingZeros(_)
DropLeadingZeros(s) ==
    IF Len(s) > 1 /\ Head(s) = "0" THEN DropLeadingZeros(Tail(s)) ELSE s

\* the trimmed item number, without leading zeros when it is an integer
StatedNormalForm(item_num) ==
    LET trimmed == Strip(item_num)
    IN IF IsDigitString(trimmed) THEN DropLeadingZeros(trimmed) ELSE trimmed

\* the item numbers that occur in the two lists
ItemNumbersInUse ==
    {po_items[i].item_number : i \in 1..Len(po_items)}
        \cup {invoice_items[j].item_number : j \in 1..Len(invoice_items)}

\* C20: _normalize_item_number gives the trimmed item number, in decimal
\* form without leading zeros when it is an integer ("013" -> "13",
\* "12" -> "12", "A001" stays); a PO line and an invoice line whose item
\* numbers have the same normal form (and that no other line carries) and
\* whose descriptions are the same are paired at score 100, and no
\* description_mismatch, missing_item or extra_item is reported for them.
C20_NormalizedItemNumbers ==
    /\ \A n \in ItemNumbersInUse :
          NormalizeItemNumber(n) = StatedNormalForm(n)
    /\ NormalizeItemNumber(<<"0", "1", "3">>) = <<"1", "3">>
    /\ NormalizeItemNumber(<<"1", "2">>) = <<"1", "2">>
    /\ NormalizeItemNumber(<<"A", "0", "0", "1">>) = <<"A", "0", "0", "1">>
    /\ pc = "compared" =>
          \A i \in 1..Len(po_items) : \A j \in 1..Len(invoice_items) :
             ( /\ StatedNormalForm(po_items[i].item_number)
                     = StatedNormalForm(invoice_items[j].item_number)
               /\ po_items[i].description = invoice_items[j].description
               /\ \A i2 \in 1..Len(po_items) :
                     i2 # i => StatedNormalForm(po_items[i2].item_number)
                                  # StatedNormalForm(po_items[i].item_number)
               /\ \A j2 \in 1..Len(invoice_items) :
                     j2 # j => StatedNormalForm(invoice_items[j2].item_number)
                                  # StatedNormalForm(invoice_items[j].item_number) )
             => /\ \E k \in 1..Len(matched_items) :
                      /\ matched_items[k].po_index = i
                      /\ matched_items[k].invoice_index = j
                      /\ matched_items[k].score = 100 * 1000
                /\ \A d \in 1..Len(discrepancies) :
                      /\ discrepancies[d].type \in {"description_mismatch", "missing_item"}
                            => discrepancies[d].item_number # po_items[i].item_number
                      /\ discrepancies[d].type = "extra_item"
                            => discrepancies[d].item_number # invoice_items[j].item_number

-----------------------------------------------------------------------------
(* Properties of repeated calls and of the store *)

C22_NoWriteToStore ==
    [][ /\ db_results' = db_results
        /\ documents' = documents
        /\ extracted_data' = extracted_data ]_vars

-----------------------------------------------------------------------------
(* Malformed numbers *)

\* a cell that holds something other than a number
MalformedCell(cell) == Strip(cell) # <<>> /\ ~ParsesAsFloat(cell)

\* the cell of a row that holds an amount, without the symbols the code removes
AmountCell(row_cells, c) ==
    IF Len(row_cells) >= c THEN Without(row_cells[c], {"$", ","}) ELSE <<>>

\* C23: a malformed value in a numeric field (quantity, unit_price,
\* line_total) is treated as if the field were absent: the line item gets no
\* value for it and the checks that need the field are skipped, so the pair
\* the line is matched in gets no quantity_mismatch for a malformed quantity
\* and no price_change for a malformed unit price.
C23_MalformedNumberIsAbsent ==
    [][ /\ pc = "analyze" =>
              \A k \in 1..Len(po_table) :
                  /\ MalformedCell(po_table[k][3]) => po_items'[k].quantity = Null
                  /\ MalformedCell(AmountCell(po_table[k], 4)) => po_items'[k].unit_price = Null
                  /\ MalformedCell(AmountCell(po_table[k], 5)) => po_items'[k].line_total = Null
        /\ pc = "matched_item" =>
              LET row_cells == po_table[matched_items[cmp_index].po_index]
              IN /\ MalformedCell(row_cells[3])
                     => IndicesOfType(Appended, "quantity_mismatch") = {}
                 /\ MalformedCell(AmountCell(row_cells, 4))
                     => IndicesOfType(Appended, "price_change") = {}
      ]_vars

-----------------------------------------------------------------------------
(* Documents that take part in matching *)

\* the document of the table has the workspace of the call, is processed and
\* has an ExtractedData row
TakesPart(id) ==
    /\ documents[id].workspace_id = WorkspaceId
    /\ documents[id].status = "PROCESSED"
    /\ GetExtractedData(id).extracted

\* the table id of the document at a position of the list of its type
TableId(document_type, position) ==
    DocumentIds(document_type, WorkspaceId)[position]

\* C24: every document a MatchingResult of the run names is a document of
\* the given workspace, in the processed state, with extracted data; a
\* document without ExtractedData, of another status or of another workspace
\* appears in no MatchingResult.
C24_OnlyProcessedDocumentsWithData ==
    \A k \in 1..Len(matching_results) :
        /\ TakesPart(TableId("PURCHASE_ORDER", matching_results[k].po_document_id))
        /\ TakesPart(TableId("INVOICE", matching_results[k].invoice_document_id))
        /\ matching_results[k].delivery_note_document_id # 0 =>
              TakesPart(TableId("DELIVERY_NOTE", matching_results[k].delivery_note_document_id))

\* a call has grouped a purchase order that comes after a document that
\* takes no part
C24_Witness ==
    /\ pc = "returned"
    /\ Len(matching_results) = 1
    /\ ~TakesPart(1)
    /\ TableId("PURCHASE_ORDER", matching_results[1].po_document_id) > 1

-----------------------------------------------------------------------------
(* The fuzzy path of _match_items *)

\* the invoice lines taken by the PO lines before line i
UsedBefore(i) ==
    { matched_items[k].invoice_index :
          k \in {n \in 1..Len(matched_items) : matched_items[n].po_index < i} }

UnusedFor(i) == (1..Len(invoice_items)) \ UsedBefore(i)

\* two lines carry the same non-empty normalized item number
SameItemNumber(item1, item2) ==
    /\ NormalizedNumber(item1) # <<>>
    /\ NormalizedNumber(item1) = NormalizedNumber(item2)

\* the unused invoice lines whose description is at least 80 like that of
\* PO line i
FuzzyCandidates(i) ==
    { j \in UnusedFor(i) :
          /\ Desc(po_items[i]) # <<>>
          /\ Desc(invoice_items[j]) # <<>>
          /\ DescriptionSimilarity(po_items[i], invoice_items[j]) >= 80 * 1000 }

\* the candidate of highest similarity, the first of them on a tie
BestCandidate(i) ==
    CHOOSE j \in FuzzyCandidates(i) :
        \A j2 \in FuzzyCandidates(i) :
            \/ DescriptionSimilarity(po_items[i], invoice_items[j2])
                  < DescriptionSimilarity(po_items[i], invoice_items[j])
            \/ /\ DescriptionSimilarity(po_items[i], invoice_items[j2])
                     = DescriptionSimilarity(po_items[i], invoice_items[j])
               /\ j <= j2

MatchesOfPo(i) == {k \in 1..Len(matched_items) : matched_items[k].po_index = i}

\* C25: a PO line with no item-number match among the unused invoice lines
\* is paired with the unused invoice line of highest description
\* similarity if that is at least 80, with the one of smallest index on a
\* tie, and stays unmatched when none reaches 80; a line with an empty or
\* absent description is never paired through the fuzzy path.
C25_FuzzyDescriptionMatch ==
    pc # "match_items" =>
        \A i \in 1..Len(po_items) :
            (\A j \in UnusedFor(i) : ~SameItemNumber(po_items[i], invoice_items[j]))
            => IF FuzzyCandidates(i) = {}
               THEN MatchesOfPo(i) = {}
               ELSE /\ Cardinality(MatchesOfPo(i)) = 1
                    /\ \A k \in MatchesOfPo(i) :
                          /\ matched_items[k].invoice_index = BestCandidate(i)
                          /\ matched_items[k].score =
                                DescriptionSimilarity(po_items[i], invoice_items[BestCandidate(i)])
                          /\ Desc(matched_items[k].po_item) # <<>>
                          /\ Desc(matched_items[k].invoice_item) # <<>>

\* a PO line whose description is 80 like that of two unused invoice lines
\* is paired with the first of them, and a PO line without a description
\* stays unmatched
C25_Witness ==
    /\ pc = "compared"
    /\ Len(po_items) = 2
    /\ Len(invoice_items) = 2
    /\ invoice_items[1] = invoice_items[2]
    /\ FuzzyCandidates(1) = {1, 2}
    /\ DescriptionSimilarity(po_items[1], invoice_items[1]) = 80 * 1000
    /\ matched_items[1].invoice_index = 1
    /\ Desc(po_items[2]) = <<>>
    /\ MatchesOfPo(2) = {}

-----------------------------------------------------------------------------
(* Rows of repeated calls *)

\* the rows are those that were there, in place, followed by new ones
KeepsRows(before, after) ==
    /\ Len(after) >= Len(before)
    /\ SubSeq(after, 1, Len(before)) = before

\* C26: each call inserts one new MatchingResult row for each grouping it
\* finds and never changes or removes a row that is there, so after n calls
\* on an unchanged snapshot that yields k groupings the table holds n * k
\* rows.
C26_RowsAccumulate ==
    [][ /\ KeepsRows(db_results, db_results')
        /\ pc = "save" =>
              /\ Len(db_results') = Len(db_results) + Len(matching_results)
              /\ Len(db_results') = Len(returned') * Len(matching_results)
              /\ SubSeq(db_results', Len(db_results) + 1, Len(db_results')) = matching_results
      ]_vars

\* two calls that find two groupings each have left four rows
C26_Witness ==
    /\ pc = "returned"
    /\ Len(returned) = 2
    /\ Len(matching_results) = 2
    /\ Len(db_results) = 4

-----------------------------------------------------------------------------
(* Invoices and purchase orders of the groupings of one call *)

\* C27: within one call no invoice is in more than one MatchingResult,
\* however many purchase orders match it by PO number or by vendor name
C27_InvoiceInOneGrouping ==
    \A i \in 1..Len(invoices) :
        Cardinality(ResultsOfInvoice(matching_results, i)) <= 1

\* the results a step of the call has added
AddedResults == (Len(matching_results) + 1)..Len(matching_results')

\* C28: each purchase order is in at most one MatchingResult of the first
\* pass, and every MatchingResult the second pass adds pairs its invoice with
\* a purchase order that is already in a first-pass MatchingResult with
\* another invoice, one that comes earlier in the invoice list.
C28_SecondChanceReusesGroupedPO ==
    [][ /\ pc = "first_pass" =>
              \A p \in 1..Len(pos) :
                  Cardinality(ResultsOfPO(matching_results', p)) <= 1
        /\ pc = "second_pass" =>
              /\ SubSeq(matching_results', 1, Len(matching_results)) = matching_results
              /\ \A k \in AddedResults :
                    \E f \in 1..Len(matching_results) :
                        /\ matching_results[f].po_document_id
                              = matching_results'[k].po_document_id
                        /\ matching_results[f].invoice_document_id
                              < matching_results'[k].invoice_document_id
      ]_vars

\* the second pass has added a grouping to the one of the first pass
C28_Witness ==
    /\ pc = "save"
    /\ Len(matching_results) = 2
    /\ matching_results[1].po_document_id = matching_results[2].po_document_id
    /\ matching_results[1].invoice_document_id = 1
    /\ matching_results[2].invoice_document_id = 2

-----------------------------------------------------------------------------
(* Confidence of the groupings *)

\* C29: every MatchingResult of a call has an overall confidence of at
\* least 85: it is 100 when matched_by is "po_number", and when matched_by
\* is "vendor_name" it is the vendor_name_match score, which is at least 85
\* because _vendor_names_match accepted the pair.
C29_OverallConfidenceAtLeast85 ==
    \A k \in 1..Len(matching_results) :
        LET c == matching_results[k].match_confidence
        IN /\ c.overall >= 85 * 1000
           /\ matching_results[k].matched_by = "po_number" => c.overall = 100 * 1000
           /\ matching_results[k].matched_by = "vendor_name" =>
                 /\ c.overall = c.vendor_name_match
                 /\ c.vendor_name_match >= VENDOR_NAME_SIMILARITY_THRESHOLD * 1000

\* a grouping by vendor name whose names are alike but not equal
C29_Witness ==
    \E k \in 1..Len(matching_results) :
        /\ matching_results[k].matched_by = "vendor_name"
        /\ matching_results[k].match_confidence.overall < 100 * 1000
        /\ matching_results[k].match_confidence.po_number_match = 0

-----------------------------------------------------------------------------
(* The status of a processed document *)

\* the ExtractedData rows of a document in a table
RowsOfDocument(rows, document_id) ==
    {k \in 1..Len(rows) : rows[k].document_id = document_id}

StatusSteps ==
    { <<"UPLOADED", "PROCESSING">>, <<"PROCESSING", "PROCESSED">>,
      <<"PROCESSING", "FAILED">> }

\* C30: the status of a document process_document creates moves from
\* UPLOADED to PROCESSING and then to PROCESSED or FAILED, and is one of the
\* last two when the call ends; a document is PROCESSED only when exactly one
\* ExtractedData row of it is stored; when the extraction raises, the status
\* ends as FAILED, no ExtractedData row of the document exists and the call
\* raises.
C30_DocumentStatus ==
    [][ /\ \A id \in 1..Len(documents) :
              \/ documents'[id] = documents[id]
              \/ /\ <<documents[id].status, documents'[id].status>> \in StatusSteps
                 /\ documents'[id] = [documents[id] EXCEPT !.status = documents'[id].status]
        /\ \A id \in (Len(documents) + 1)..Len(documents') :
              documents'[id].status = "UPLOADED"
        /\ pc' \in {"process_returned", "process_raised"} =>
              documents'[Len(documents')].status \in {"PROCESSED", "FAILED"}
        /\ \A id \in 1..Len(documents') :
              documents'[id].status = "PROCESSED" =>
                  Cardinality(RowsOfDocument(extracted_data', id)) = 1
        /\ (pc = "extraction_raised" /\ extracted_data_dict.raised) =>
              /\ pc' = "process_raised"
              /\ documents'[Len(documents')].status = "FAILED"
              /\ RowsOfDocument(extracted_data', Len(documents')) = {}
      ]_vars

\* one call has stored the data of its document and the next has raised
C30_Witness ==
    /\ pc = "process_raised"
    /\ Len(documents) = 2
    /\ documents[1].status = "PROCESSED"
    /\ RowsOfDocument(extracted_data, 1) = {1}
    /\ documents[2].status = "FAILED"
    /\ extracted_data_dict.raised

====
